---- MODULE Spec2Model ----
(***************************************************************************)
(* Configuration core of the TimeDateWeather desktop widget:               *)
(*   config_manager.py   ConfigManager (load/save/merge/instances/import)  *)
(*   settings_window.py  SettingsWindow (preview / apply / save / cancel)  *)
(*   themes.py           theme catalog and apply_theme_to_config           *)
(*   timedateweather.py  DesktopWidget (owner of the ConfigManager)        *)
(*                                                                         *)
(* Representation of JSON / Python values                                  *)
(*   dict            a function with a domain of strings                   *)
(*   list            a sequence                                            *)
(*   str/int/bool    the TLA+ value (a float is written as its text)       *)
(*   a value that is NOT a dict, at a place where the code tests           *)
(*   isinstance(v, dict): the one-field record NonDict(label)              *)
(*                                                                         *)
(* Python dicts are objects: two names may hold the same dict.  The only   *)
(* sharing the code creates between the working copy and the root          *)
(* document is recorded in the variables `aliased` and `shared`.           *)
(***************************************************************************)
EXTENDS Integers, Sequences, FiniteSets, TLC

VARIABLES
    alive,            \* the widget process got past ConfigManager.__init__
    widget_id,        \* DesktopWidget.instance_id (timedateweather.py:54)
    instance_id,      \* ConfigManager.instance_id
    root_config,      \* ConfigManager.root_config
    config,           \* ConfigManager.config, the working copy
    inst_order,       \* the key order of the dict root_config["instances"]
    linked_id,        \* the key of root_config["instances"] whose entry config was read from or stored as
    aliased,          \* config IS the object root_config["instances"][linked_id]
    shared,           \* sections whose dict object is shared by config and that entry
    file,             \* the backing file settings.json
    win_open,         \* a SettingsWindow exists (edit session open)
    instance_var,     \* SettingsWindow.instance_var (the instance selector)
    combo_values,     \* the ids the instance selector offers
    original_config,  \* SettingsWindow.original_config, the Settings Snapshot
    ctl,              \* the values held by the settings window's controls
    session0,         \* history: what the current edit session found when it opened
    startup_reg,      \* the OS-startup registration last requested (set_launch_at_boot)
    last,             \* the operation performed by the last step and what it returned
    steps,            \* number of operations performed so far
    mP,               \* merge harness: the loaded document handed to the Merge Engine
    mOut,             \* merge harness: the merged document
    mDone,            \* merge harness: the merge has been applied
    peer,             \* the ConfigManager of a second widget process on the same backing file
    worker,           \* the weather-fetch thread of the widget and DesktopWidget.weather_text
    schema            \* the module object DEFAULT_INSTANCE_CONFIG and who else holds its sections

cmVars    == <<instance_id, root_config, inst_order, config, linked_id, aliased, shared, file>>
uiVars    == <<win_open, instance_var, combo_values, original_config, ctl, startup_reg>>
histVars  == <<last, steps, session0>>
mergeVars == <<mP, mOut, mDone>>
procVars  == <<peer, worker, schema>>
vars      == <<alive, widget_id, cmVars, uiVars, histVars, mergeVars, procVars>>

-----------------------------------------------------------------------------
(* Bounds of the model *)

\* instance ids are instance_1 .. instance_<MaxInstances>
MaxInstances == 3
\* number of operations in one behaviour
MaxSteps == 4
\* number of method calls in one behaviour of the ConfigManager driven directly
MaxApiCalls == 3

-----------------------------------------------------------------------------
(* Values *)

NonDict(label) == [nondict |-> label]
IsDict(v) == "nondict" \notin DOMAIN v
EmptyDict == [k \in {} |-> TRUE]

\* faulty variant of dict.update: the keys already present win
DictUpdate_keep(d, other) == d @@ other
\* dict.update(other): keys of `other` win
DictUpdate(d, other) == other @@ d
\* d[key] = value
DictSet(d, key, value) == (key :> value) @@ d
\* del d[key]
DictDel(d, key) == [k \in DOMAIN d \ {key} |-> d[k]]

\* f"instance_{n}"
InstName(n) == CASE n = 1 -> "instance_1"
                 [] n = 2 -> "instance_2"
                 [] n = 3 -> "instance_3"
                 [] n = 4 -> "instance_4"
                 [] n = 5 -> "instance_5"
                 [] OTHER -> "instance_6"
InstanceIds == {InstName(n) : n \in 1..MaxInstances}

\* `x in lst` and lst.remove(x) (removes the first occurrence) for Python lists
InList(x, lst) == \E i \in 1..Len(lst) : lst[i] = x
FirstIndex(x, lst) == CHOOSE i \in 1..Len(lst) :
                          lst[i] = x /\ \A j \in 1..(i - 1) : lst[j] # x
ListRemove(lst, x) ==
    LET i == FirstIndex(x, lst)
    IN  [j \in 1..(Len(lst) - 1) |-> IF j < i THEN lst[j] ELSE lst[j + 1]]

-----------------------------------------------------------------------------
(* Default Schema: config_manager.py:19-104 *)

DEFAULT_INSTANCE_CONFIG ==
    [ location |-> [ zip_code |-> "80701", country |-> "US" ],
      weather |-> [ show_attribution |-> TRUE,
                    display_format |-> "standard",
                    format_strings |-> [ standard |-> "%C+%t+%w",
                                         simple |-> "%C+%t",
                                         detailed |-> "%C+%t+|+%w+|+%h",
                                         minimal |-> "%t" ],
                    show_emoji |-> TRUE,
                    show_forecast |-> FALSE,
                    forecast_days |-> 1 ],
      fonts |-> [ family |-> "Bahnschrift",
                  time_size |-> 48,
                  date_size |-> 16,
                  weather_size |-> 16,
                  status_size |-> 11 ],
      colors |-> [ text |-> "#f5f2ea",
                   status |-> "#8a8a8a",
                   shadow |-> "#121212",
                   lock_colors |-> TRUE,
                   time_color |-> "#fefcf7",
                   date_color |-> "#d8d2c6",
                   weather_color |-> "#c7d3e8" ],
      appearance |-> [ opacity |-> "1.0",
                       scale |-> "1.0",
                       shadow_offset_x |-> 2,
                       shadow_offset_y |-> 2,
                       theme |-> "default" ],
      display |-> [ use_24h_format |-> FALSE,
                    show_seconds |-> FALSE,
                    launch_at_boot |-> FALSE,
                    hourly_chime |-> FALSE,
                    weather_refresh_chime |-> FALSE,
                    click_through_locked |-> FALSE,
                    date_format |-> "%A, %B %d",
                    snap_to_edges |-> TRUE,
                    snap_distance |-> 15 ],
      spacing |-> [ status_x |-> 0, status_y |-> 0,
                    time_x |-> 0, time_y |-> 18,
                    date_x |-> 0, date_y |-> 75,
                    weather_x |-> 0, weather_y |-> 100 ],
      position |-> [ x |-> 50, y |-> 50 ],
      updates |-> [ time_interval |-> 1000, weather_interval |-> 1800000 ],
      ui |-> [ settings_border_color |-> "#ffff00",
               new_instance_color |-> "#00ff00",
               new_instance_color_dim |-> "#00aa00" ] ]

DEFAULT_ROOT_CONFIG ==
    [ active_instances |-> <<"instance_1">>,
      instances |-> [ instance_1 |-> DEFAULT_INSTANCE_CONFIG ] ]

-----------------------------------------------------------------------------
(* Merge Engine and deep copy: config_manager.py:245-262 *)

\* A copy has the structure of the original and shares no object with it; the
\* sharing the callers lose by copying is what `aliased` and `shared` record.
_deep_copy(obj) == obj

\* faulty variant of the merge: only what the defaults define is kept
merge_schema_only(loaded_config, defaults) ==
    [ category \in DOMAIN defaults |->
        IF category \in DOMAIN loaded_config /\ IsDict(loaded_config[category])
        THEN [ key \in DOMAIN defaults[category] |->
                 IF key \in DOMAIN loaded_config[category]
                 THEN loaded_config[category][key] ELSE defaults[category][key] ]
        ELSE defaults[category] ]

\* faulty variant of the merge: a section whose loaded value is not a
\* mapping is replaced by the section of the defaults
merge_coerce(loaded_config, defaults) ==
    [ category \in DOMAIN defaults \cup DOMAIN loaded_config |->
        IF category \in DOMAIN loaded_config
        THEN IF category \in DOMAIN defaults
             THEN IF IsDict(loaded_config[category])
                  THEN DictUpdate(defaults[category], loaded_config[category])
                  ELSE defaults[category]
             ELSE loaded_config[category]
        ELSE defaults[category] ]

_merge_with_defaults(loaded_config, defaults) ==
    LET merged == _deep_copy(defaults)
    IN  [ category \in DOMAIN merged \cup DOMAIN loaded_config |->
            IF category \in DOMAIN loaded_config
            THEN LET values == loaded_config[category]
                 IN  IF category \in DOMAIN merged /\ IsDict(values)
                     THEN DictUpdate(merged[category], values)
                     ELSE values
            ELSE merged[category] ]

\* the sections of the merged document that are the very dict objects of
\* loaded_config (the `merged[category] = values` branch)
MergeShared(loaded_config, defaults) ==
    { category \in DOMAIN loaded_config :
        /\ ~(category \in DOMAIN defaults /\ IsDict(loaded_config[category]))
        /\ IsDict(loaded_config[category]) }

-----------------------------------------------------------------------------
(* The backing file: a JSON text, held as the document it decodes to *)

\* `order` is the order in which the text lists the keys of doc["instances"]
FileAbsent  == [exists |-> FALSE, parses |-> FALSE, doc |-> EmptyDict, order |-> <<>>]
\* a file that exists and json.load rejects (JSONDecodeError) or cannot be read
FileCorrupt == [exists |-> TRUE, parses |-> FALSE, doc |-> EmptyDict, order |-> <<>>]
\* json.dump(doc, f, indent=4): the text of doc; json.load gives back a document
\* with the same keys and values (string keys, JSON primitives) and no sharing
JsonDump(doc, order) == [exists |-> TRUE, parses |-> TRUE, doc |-> doc, order |-> order]
JsonLoad(f) == f.doc

\* outcomes of open(path, 'w') + json.dump: written, or IOError before any write
IOOutcomes == {"ok", "ioerror"}

-----------------------------------------------------------------------------
(* ConfigManager: config_manager.py:107-297                                *)
(* An operation takes the manager's state c (a record of its fields and    *)
(* the file) and gives [cm: the state after, ret: the returned value as    *)
(* Python prints it, exc: the exception that escaped, or "none"].          *)

CM == [ instance_id |-> instance_id, root_config |-> root_config,
        inst_order |-> inst_order, config |-> config, linked_id |-> linked_id, aliased |-> aliased,
        shared |-> shared, file |-> file ]

Result(c, ret, exc) == [cm |-> c, ret |-> ret, exc |-> exc]

HasKey(d, k) == IsDict(d) /\ k \in DOMAIN d

\* root_config["instances"][id] = cfg
RootSetEntry(root, id, cfg) == [root EXCEPT !.instances = DictSet(@, id, cfg)]

\* a Python dict keeps its keys in insertion order: a deleted key leaves the
\* order, a new key goes to the end
RECURSIVE SeqOfSet(_)
SeqOfSet(S) == IF S = {} THEN <<>>
               ELSE LET x == CHOOSE y \in S : TRUE IN <<x>> \o SeqOfSet(S \ {x})
Reorder(order, keys) ==
    SelectSeq(order, LAMBDA k : k \in keys)
      \o SeqOfSet({k \in keys : ~InList(k, order)})

\* the manager c with root_config replaced by root1
WithRoot(c, root1) ==
    [c EXCEPT !.root_config = root1,
              !.inst_order = IF HasKey(root1, "instances") /\ IsDict(root1.instances)
                             THEN Reorder(c.inst_order, DOMAIN root1.instances)
                             ELSE <<>>]

\* faulty variant of save(): the file is written from the root document as
\* it was before the working copy was stored in it
save_writes_stale(c, io) ==
    LET root1 == RootSetEntry(c.root_config, c.instance_id, c.config)
        c1 == [WithRoot(c, root1) EXCEPT !.linked_id = c.instance_id,
                                         !.aliased = TRUE, !.shared = {}]
    IN  IF io = "ok"
        THEN Result([c1 EXCEPT !.file = JsonDump(c.root_config, c.inst_order)],
                    "True", "none")
        ELSE Result(c1, "False", "none")

\* save(): config_manager.py:156-167
CM_save(c, io) ==
    LET root1 == RootSetEntry(c.root_config, c.instance_id, c.config)
        c1 == [WithRoot(c, root1) EXCEPT !.linked_id = c.instance_id,
                                         !.aliased = TRUE, !.shared = {}]
    IN  IF io = "ok"
        THEN Result([c1 EXCEPT !.file = JsonDump(root1, c1.inst_order)], "True", "none")
        ELSE Result(c1, "False", "none")

\* get(category, key): config_manager.py:169-178 (None when the key is missing)
CM_get(c, category, key) ==
    IF category \in DOMAIN c.config /\ key \in DOMAIN c.config[category]
    THEN c.config[category][key]
    ELSE "None"

\* the working copy after cfg[category][key] = value for each <<category, key,
\* value>> of `sets` in order: for a key set more than once the last value stays
CfgSetSeq(cfg, sets) ==
    LET cats == { sets[i][1] : i \in DOMAIN sets }
        NewSection(cat) ==
            LET old == IF cat \in DOMAIN cfg THEN cfg[cat] ELSE EmptyDict
                idx == { i \in DOMAIN sets : sets[i][1] = cat }
            IN  [ key \in DOMAIN old \cup { sets[i][2] : i \in idx } |->
                    LET hits == { i \in idx : sets[i][2] = key }
                    IN  IF hits = {} THEN old[key]
                        ELSE sets[CHOOSE i \in hits : \A j \in hits : j <= i][3] ]
    IN  [ cat \in DOMAIN cfg \cup cats |->
            IF cat \in cats THEN NewSection(cat) ELSE cfg[cat] ]

\* the manager after its working copy object was changed in place to cfg1: an
\* entry of the root document that is the same object, or holds sections that
\* are, shows the change too (no key of root_config["instances"] is added)
StoreInPlace(c, cfg1) ==
    LET entry == c.root_config.instances[c.linked_id]
        root1 == IF c.aliased
                 THEN RootSetEntry(c.root_config, c.linked_id, cfg1)
                 ELSE IF c.shared # {}
                 THEN RootSetEntry(c.root_config, c.linked_id,
                          [cat \in DOMAIN entry |->
                             IF cat \in c.shared THEN cfg1[cat] ELSE entry[cat]])
                 ELSE c.root_config
    IN  [c EXCEPT !.config = cfg1, !.root_config = root1]

\* set(category, key, value) for each <<category, key, value>> of `sets`, in
\* order: config_manager.py:180-187.  Item assignment on a section that is not
\* a dict raises TypeError; the sets before it stay.
SetSeq(c, sets) ==
    LET bad == { i \in 1..Len(sets) :
                   sets[i][1] \in DOMAIN c.config /\ ~IsDict(c.config[sets[i][1]]) }
        n == IF bad = {} THEN Len(sets)
             ELSE (CHOOSE i \in bad : \A j \in bad : i <= j) - 1
    IN  Result(StoreInPlace(c, CfgSetSeq(c.config, SubSeq(sets, 1, n))),
               "None", IF bad = {} THEN "none" ELSE "TypeError")

\* set(category, key, value): config_manager.py:180-187
CM_set(c, category, key, value) == SetSeq(c, << <<category, key, value>> >>)

\* _migrate_to_instances(old_config): config_manager.py:147-154
\* faulty variant of the migration: the legacy document is dropped and the
\* first instance starts from the defaults
migrate_discards(old_config) ==
    [ active_instances |-> <<"instance_1">>,
      instances |-> [ instance_1 |-> _deep_copy(DEFAULT_INSTANCE_CONFIG) ] ]

_migrate_to_instances(old_config) ==
    [ active_instances |-> <<"instance_1">>,
      instances |-> [ instance_1 |-> old_config ] ]

\* the manager as __init__ leaves it before load(): config_manager.py:110-115
LoadBlank(f, id) ==
    [ instance_id |-> id, root_config |-> EmptyDict, inst_order |-> <<>>,
      config |-> EmptyDict, linked_id |-> id, aliased |-> FALSE,
      shared |-> {}, file |-> f ]

\* root_config and config set from the defaults: config_manager.py:139-140, 142-143
LoadFallback(f, id) ==
    [WithRoot(LoadBlank(f, id), _deep_copy(DEFAULT_ROOT_CONFIG))
       EXCEPT !.config = _deep_copy(DEFAULT_INSTANCE_CONFIG)]

\* the file does not exist: defaults, then save(): config_manager.py:141-145
LoadFirstRun(f, id, io) ==
    LET r == CM_save(LoadFallback(f, id), io) IN Result(r.cm, "None", r.exc)

\* faulty variant of the except branch: the defaults are written over the file
load_corrupt_writes(f, id) ==
    Result(CM_save(LoadFallback(f, id), "ok").cm, "None", "none")

\* json.load raised JSONDecodeError or IOError: config_manager.py:137-140
LoadCorrupt(f, id) == Result(LoadFallback(f, id), "None", "none")

\* faulty variant of the seeding: the missing instance gets an empty entry
ensure_instance_empty(root, id) ==
    IF id \notin DOMAIN root.instances
    THEN RootSetEntry(root, id, EmptyDict) ELSE root

\* the current instance is given an entry if it has none: config_manager.py:128-130
EnsureInstance(root, id) ==
    IF id \notin DOMAIN root.instances
    THEN RootSetEntry(root, id, _deep_copy(DEFAULT_INSTANCE_CONFIG)) ELSE root

\* the file was parsed: config_manager.py:121-136
LoadParsed(f, id) ==
    LET parsed == [LoadBlank(f, id) EXCEPT !.inst_order = f.order]
        root0 == JsonLoad(f)
        root1 == IF ~HasKey(root0, "instances")
                 THEN _migrate_to_instances(root0) ELSE root0
        insts == root1.instances
    IN  IF ~IsDict(insts)
        THEN Result(WithRoot(parsed, root1), "None", "TypeError")
        ELSE
          LET root2 == EnsureInstance(root1, id)
              entry == root2.instances[id]
          IN  IF ~IsDict(entry)
              THEN Result(WithRoot(WithRoot(parsed, root1), root2), "None", "AttributeError")
              ELSE Result([WithRoot(WithRoot(parsed, root1), root2) EXCEPT
                             !.config = _merge_with_defaults(entry, DEFAULT_INSTANCE_CONFIG),
                             !.shared = MergeShared(entry, DEFAULT_INSTANCE_CONFIG)],
                          "None", "none")

\* load(): config_manager.py:117-145, for the manager created with instance id
\* `id` on the file f; io is the outcome of the first-run save
CM_load(f, id, io) ==
    IF ~f.exists THEN LoadFirstRun(f, id, io)
    ELSE IF ~f.parses THEN LoadCorrupt(f, id)
    ELSE LoadParsed(f, id)

\* reset_to_defaults(): config_manager.py:193-196
CM_reset_to_defaults(c, io) ==
    LET r == CM_save([c EXCEPT !.config = _deep_copy(DEFAULT_INSTANCE_CONFIG),
                               !.aliased = FALSE, !.shared = {}], io)
    IN  Result(r.cm, "None", r.exc)

\* get_all_instances(): config_manager.py:198-200
get_all_instances(c) == c.inst_order

\* get_active_instances(): config_manager.py:202-204
get_active_instances(c) ==
    IF "active_instances" \in DOMAIN c.root_config
    THEN c.root_config.active_instances ELSE <<>>

\* faulty variant of add_instance(): an id that exists is refused, but the
\* root document is saved all the same
add_instance_resaves(c, id, io) ==
    IF id \notin DOMAIN c.root_config.instances
    THEN LET root1 == RootSetEntry(c.root_config, id, _deep_copy(DEFAULT_INSTANCE_CONFIG))
         IN  IF "active_instances" \notin DOMAIN root1
             THEN Result(WithRoot(c, root1), "None", "KeyError")
             ELSE LET root2 == IF ~InList(id, root1.active_instances)
                               THEN [root1 EXCEPT !.active_instances = Append(@, id)]
                               ELSE root1
                      r == CM_save(WithRoot(c, root2), io)
                  IN  Result(r.cm, "True", r.exc)
    ELSE Result(CM_save(c, io).cm, "False", "none")

\* add_instance(id): config_manager.py:206-214
CM_add_instance(c, id, io) ==
    IF id \notin DOMAIN c.root_config.instances
    THEN LET root1 == RootSetEntry(c.root_config, id, _deep_copy(DEFAULT_INSTANCE_CONFIG))
         IN  IF "active_instances" \notin DOMAIN root1
             THEN Result(WithRoot(c, root1), "None", "KeyError")
             ELSE LET root2 == IF ~InList(id, root1.active_instances)
                               THEN [root1 EXCEPT !.active_instances = Append(@, id)]
                               ELSE root1
                      r == CM_save(WithRoot(c, root2), io)
                  IN  Result(r.cm, "True", r.exc)
    ELSE Result(c, "False", "none")

\* remove_instance(id) past its guard: config_manager.py:221-227
RemoveEntry(c, id, io) ==
    IF id \in DOMAIN c.root_config.instances
    THEN LET root1 == [c.root_config EXCEPT !.instances = DictDel(@, id)]
             \* the deleted entry may have been the working copy's own object
             c1 == [WithRoot(c, root1) EXCEPT
                             !.aliased = @ /\ id # c.linked_id,
                             !.shared = IF id = c.linked_id THEN {} ELSE @]
         IN  IF "active_instances" \notin DOMAIN root1
             THEN Result(c1, "None", "KeyError")
             ELSE LET root2 == IF InList(id, root1.active_instances)
                               THEN [root1 EXCEPT !.active_instances = ListRemove(@, id)]
                               ELSE root1
                      r == CM_save(WithRoot(c1, root2), io)
                  IN  Result(r.cm, "True", r.exc)
    ELSE Result(c, "False", "none")

\* faulty variants of remove_instance: the guard written `< 1`, and no guard
remove_instance_guard_lt(c, id, io) ==
    IF Cardinality(DOMAIN c.root_config.instances) < 1
    THEN Result(c, "False", "none")
    ELSE RemoveEntry(c, id, io)
remove_instance_unguarded(c, id, io) == RemoveEntry(c, id, io)

\* remove_instance(id): config_manager.py:216-227
CM_remove_instance(c, id, io) ==
    IF Cardinality(DOMAIN c.root_config.instances) <= 1
    THEN Result(c, "False", "none")
    ELSE RemoveEntry(c, id, io)

\* set_active_instances(ids): config_manager.py:229-232
CM_set_active_instances(c, ids, io) ==
    LET root1 == [k \in DOMAIN c.root_config \cup {"active_instances"} |->
                    IF k = "active_instances" THEN ids ELSE c.root_config[k]]
        r == CM_save(WithRoot(c, root1), io)
    IN  Result(r.cm, "None", r.exc)

\* faulty variant of switch_instance(): the instance being left is saved first
switch_autosaves(c, id) ==
    IF id \in DOMAIN c.root_config.instances
    THEN LET c0 == CM_save(c, "ok").cm
             entry == c0.root_config.instances[id]
         IN  Result([c0 EXCEPT
                        !.instance_id = id,
                        !.linked_id = id,
                        !.config = _merge_with_defaults(entry, DEFAULT_INSTANCE_CONFIG),
                        !.aliased = FALSE,
                        !.shared = MergeShared(entry, DEFAULT_INSTANCE_CONFIG)],
                    "True", "none")
    ELSE Result(c, "False", "none")

\* switch_instance(id): config_manager.py:234-243
CM_switch_instance(c, id) ==
    IF id \in DOMAIN c.root_config.instances
    THEN LET entry == c.root_config.instances[id]
             c1 == [c EXCEPT !.instance_id = id]
         IN  IF ~IsDict(entry)
             \* instance_id is already assigned when .items() fails; config stays
             \* the old working copy, linked to the entry it came from
             THEN Result(c1, "None", "AttributeError")
             ELSE Result([c1 EXCEPT
                            !.linked_id = id,
                            !.config = _merge_with_defaults(entry, DEFAULT_INSTANCE_CONFIG),
                            !.aliased = FALSE,
                            !.shared = MergeShared(entry, DEFAULT_INSTANCE_CONFIG)],
                         "True", "none")
    ELSE Result(c, "False", "none")


\* import_settings(filepath): config_manager.py:273-297.  imp is the file chosen:
\* [parses, doc, first], `first` the key json.load puts first in doc["instances"]
FalsyLabels == {"None", "0", "", "[]", "False"}
Falsy(v) == v = EmptyDict \/ (~IsDict(v) /\ v.nondict \in FalsyLabels)

\* the entry import_settings() takes from the parsed document `data`:
\* config_manager.py:282-288
ImportChosen(c, imp) ==
    IF HasKey(imp.doc, "instances")
    THEN IF c.instance_id \in DOMAIN imp.doc.instances
            /\ ~Falsy(imp.doc.instances[c.instance_id])
         THEN imp.doc.instances[c.instance_id]
         ELSE imp.doc.instances[imp.first]
    ELSE imp.doc

\* whether import_settings() returns False before it assigns anything:
\* config_manager.py:279-291
ImportRejects(c, imp) ==
    \/ ~imp.parses
    \/ ~IsDict(imp.doc)
    \/ /\ HasKey(imp.doc, "instances")
       /\ (~IsDict(imp.doc.instances) \/ DOMAIN imp.doc.instances = {})
    \/ ~IsDict(ImportChosen(c, imp))

\* faulty variant of import_settings(): the entry taken from a root document
\* is stored under the id it has in the imported file
import_under_file_id(c, imp, io) ==
    IF ImportRejects(c, imp) THEN Result(c, "False", "none")
    ELSE LET cfg1 == _merge_with_defaults(ImportChosen(c, imp), DEFAULT_INSTANCE_CONFIG)
             own == ~HasKey(imp.doc, "instances")
                      \/ ( /\ c.instance_id \in DOMAIN imp.doc.instances
                           /\ ~Falsy(imp.doc.instances[c.instance_id]) )
             target == IF own THEN c.instance_id ELSE imp.first
             c1 == [WithRoot(c, RootSetEntry(c.root_config, target, cfg1))
                      EXCEPT !.config = cfg1, !.instance_id = target,
                             !.linked_id = target, !.aliased = TRUE, !.shared = {}]
         IN  CM_save(c1, io)

\* faulty variant of import_settings(): a root document with no instances is
\* imported as an empty instance document
import_empty_as_defaults(c, imp, io) ==
    IF imp.parses /\ HasKey(imp.doc, "instances") /\ imp.doc.instances = EmptyDict
    THEN CM_save([WithRoot(c, RootSetEntry(c.root_config, c.instance_id,
                                           _deep_copy(DEFAULT_INSTANCE_CONFIG)))
                    EXCEPT !.config = _deep_copy(DEFAULT_INSTANCE_CONFIG),
                           !.linked_id = c.instance_id,
                           !.aliased = TRUE, !.shared = {}], io)
    ELSE IF ImportRejects(c, imp) THEN Result(c, "False", "none")
    ELSE LET cfg1 == _merge_with_defaults(ImportChosen(c, imp), DEFAULT_INSTANCE_CONFIG)
             c1 == [WithRoot(c, RootSetEntry(c.root_config, c.instance_id, cfg1))
                      EXCEPT !.config = cfg1, !.linked_id = c.instance_id,
                             !.aliased = TRUE, !.shared = {}]
         IN  CM_save(c1, io)

CM_import_settings(c, imp, io) ==
    IF ImportRejects(c, imp) THEN Result(c, "False", "none")
    ELSE LET cfg1 == _merge_with_defaults(ImportChosen(c, imp), DEFAULT_INSTANCE_CONFIG)
             c1 == [WithRoot(c, RootSetEntry(c.root_config, c.instance_id, cfg1))
                      EXCEPT !.config = cfg1, !.linked_id = c.instance_id,
                             !.aliased = TRUE, !.shared = {}]
         IN  CM_save(c1, io)

-----------------------------------------------------------------------------
(* Theme catalog: themes.py:6-186 *)

THEMES ==
    [
      default |->
        [ name |-> "Studio Glass",
          colors |-> [ text |-> "#f5f2ea", shadow |-> "#121212", status |-> "#8a8a8a",
                       time_color |-> "#fefcf7", date_color |-> "#d8d2c6",
                       weather_color |-> "#c7d3e8" ],
          fonts |-> [ family |-> "Bahnschrift" ],
          appearance |-> [ opacity |-> "1.0" ] ],
      noir_mint |->
        [ name |-> "Noir Mint",
          colors |-> [ text |-> "#dffcf2", shadow |-> "#081715", status |-> "#5da79a",
                       time_color |-> "#b8fff0", date_color |-> "#8ad6c5",
                       weather_color |-> "#e7fff8" ],
          fonts |-> [ family |-> "Cascadia Code" ],
          appearance |-> [ opacity |-> "0.96" ] ],
      cobalt_dawn |->
        [ name |-> "Cobalt Dawn",
          colors |-> [ text |-> "#d9e8ff", shadow |-> "#0a1020", status |-> "#5e7bb3",
                       time_color |-> "#ffffff", date_color |-> "#b6c9f0",
                       weather_color |-> "#8ab4ff" ],
          fonts |-> [ family |-> "Yu Gothic UI Semibold" ],
          appearance |-> [ opacity |-> "0.95" ] ],
      sunset_signal |->
        [ name |-> "Sunset Signal",
          colors |-> [ text |-> "#ffd2a6", shadow |-> "#2a0f05", status |-> "#c18a5a",
                       time_color |-> "#ffe0bf", date_color |-> "#f5b77f",
                       weather_color |-> "#ff9b5f" ],
          fonts |-> [ family |-> "Trebuchet MS" ],
          appearance |-> [ opacity |-> "0.95" ] ],
      paper_ink |->
        [ name |-> "Paper Ink",
          colors |-> [ text |-> "#1f1b16", shadow |-> "#e3ddcf", status |-> "#7b6e61",
                       time_color |-> "#14110d", date_color |-> "#2d2620",
                       weather_color |-> "#3b322a" ],
          fonts |-> [ family |-> "Georgia" ],
          appearance |-> [ opacity |-> "0.92" ] ],
      glacier |->
        [ name |-> "Glacier",
          colors |-> [ text |-> "#eaf7ff", shadow |-> "#0b1a22", status |-> "#5c91a5",
                       time_color |-> "#f8fdff", date_color |-> "#cfe9f5",
                       weather_color |-> "#9ad4e6" ],
          fonts |-> [ family |-> "Calibri Light" ],
          appearance |-> [ opacity |-> "0.93" ] ] ]

\* get_theme(theme_id): themes.py:118-128
get_theme(theme_id) ==
    IF theme_id \in DOMAIN THEMES THEN THEMES[theme_id] ELSE THEMES["default"]

\* <<section, key, value>> for every key of a theme's partial map
SetsOf(section, values) ==
    LET ks == SeqOfSet(DOMAIN values)
    IN  [i \in 1..Len(ks) |-> <<section, ks[i], values[ks[i]]>>]

\* faulty variant of apply_theme_to_config(): the colors, fonts and appearance
\* sections are replaced by the maps of the theme
apply_theme_wholesale(c, theme_id) ==
    IF theme_id \notin DOMAIN THEMES THEN Result(c, "False", "none")
    ELSE Result(StoreInPlace(c, [c.config EXCEPT
                    !["colors"] = THEMES[theme_id].colors,
                    !["fonts"] = THEMES[theme_id].fonts,
                    !["appearance"] = DictSet(THEMES[theme_id].appearance,
                                              "theme", theme_id)]),
                "True", "none")

\* faulty variant of apply_theme_to_config(): an id the catalog does not have
\* is recorded as the theme of the session
apply_theme_records_unknown(c, theme_id) ==
    LET theme == get_theme(theme_id)
        r == SetSeq(c, SetsOf("colors", theme.colors)
                         \o SetsOf("fonts", theme.fonts)
                         \o SetsOf("appearance", theme.appearance)
                         \o << <<"appearance", "theme", theme_id>> >>)
    IN  IF theme_id \notin DOMAIN THEMES THEN Result(r.cm, "False", "none")
        ELSE IF r.exc # "none" THEN r ELSE Result(r.cm, "True", "none")

\* apply_theme_to_config(config, theme_id): themes.py:151-186
apply_theme_to_config(c, theme_id) ==
    IF theme_id \notin DOMAIN THEMES THEN Result(c, "False", "none")
    ELSE
      LET theme == THEMES[theme_id]
          r == SetSeq(c, SetsOf("colors", theme.colors)
                           \o SetsOf("fonts", theme.fonts)
                           \o SetsOf("appearance", theme.appearance)
                           \o << <<"appearance", "theme", theme_id>> >>)
      IN  IF r.exc # "none" THEN r ELSE Result(r.cm, "True", "none")

-----------------------------------------------------------------------------
(* SettingsWindow: settings_window.py                                      *)
(* The controls are the record ctl, one field per Tk variable or entry.    *)
(* A handler takes the manager's state c and the window's fields and gives *)
(* [cm, ctl, snap (original_config), boot (the OS-startup registration),   *)
(*  exc].  Tk reports an exception that escapes a handler and goes on: the *)
(* handler's effects up to the exception stay.                             *)

\* settings_window.py:327-342
format_map ==
    ( "Standard (Condition, Temp, Wind)" :> "standard" ) @@
    ( "Simple (Condition, Temp)" :> "simple" ) @@
    ( "Detailed (+ Humidity)" :> "detailed" ) @@
    ( "Minimal (Temp only)" :> "minimal" )
format_map_reverse ==
    [ standard |-> "Standard (Condition, Temp, Wind)",
      simple |-> "Simple (Condition, Temp)",
      detailed |-> "Detailed (+ Humidity)",
      minimal |-> "Minimal (Temp only)" ]

\* settings_window.py:909-919
date_format_map ==
    ( "Full (Saturday, January 11)" :> "%A, %B %d" ) @@
    ( "Short (Sat, Jan 11)" :> "%a, %b %d" ) @@
    ( "Numeric (01/11/2025)" :> "%m/%d/%Y" ) @@
    ( "ISO (2025-01-11)" :> "%Y-%m-%d" ) @@
    ( "European (11 January 2025)" :> "%d %B %Y" ) @@
    ( "Minimal (Jan 11)" :> "%b %d" )
date_format_map_reverse ==
    ( "%A, %B %d" :> "Full (Saturday, January 11)" ) @@
    ( "%a, %b %d" :> "Short (Sat, Jan 11)" ) @@
    ( "%m/%d/%Y" :> "Numeric (01/11/2025)" ) @@
    ( "%Y-%m-%d" :> "ISO (2025-01-11)" ) @@
    ( "%d %B %Y" :> "European (11 January 2025)" ) @@
    ( "%b %d" :> "Minimal (Jan 11)" )

\* `value or default` for a value read with config.get
OrDefault(v, d) == IF v = "None" \/ v = "" THEN d ELSE v

\* the theme selector's text for a stored theme id: settings_window.py:236-240, 413-416
ThemeNameOf(theme_id) ==
    IF theme_id \in DOMAIN THEMES THEN THEMES[theme_id].name ELSE "Custom"

\* milliseconds per minute: settings_window.py:194, 1213
MsPerMinute == 60000

\* the controls as the constructor fills them from the working copy:
\* settings_window.py:277-997
NewControls(c) ==
    LET g(category, key) == CM_get(c, category, key)
        fmt == g("weather", "display_format")
        dfmt == OrDefault(g("display", "date_format"), "%A, %B %d")
    IN  [ zip_entry |-> g("location", "zip_code"),
          country_entry |-> g("location", "country"),
          weather_interval_var |-> g("updates", "weather_interval") \div MsPerMinute,
          weather_format_var |-> IF fmt \in DOMAIN format_map_reverse
                                 THEN format_map_reverse[fmt] ELSE fmt,
          show_weather_attribution_var |-> g("weather", "show_attribution"),
          show_emoji_var |-> g("weather", "show_emoji"),
          show_forecast_var |-> g("weather", "show_forecast"),
          font_family_var |-> g("fonts", "family"),
          time_size_var |-> g("fonts", "time_size"),
          date_size_var |-> g("fonts", "date_size"),
          weather_size_var |-> g("fonts", "weather_size"),
          text_color_var |-> g("colors", "text"),
          shadow_color_var |-> g("colors", "shadow"),
          status_color_var |-> g("colors", "status"),
          lock_colors_var |-> g("colors", "lock_colors"),
          time_color_var |-> g("colors", "time_color"),
          date_color_var |-> g("colors", "date_color"),
          weather_color_var |-> g("colors", "weather_color"),
          opacity_var |-> g("appearance", "opacity"),
          scale_var |-> g("appearance", "scale"),
          shadow_offset_x_var |-> g("appearance", "shadow_offset_x"),
          shadow_offset_y_var |-> g("appearance", "shadow_offset_y"),
          theme_var |-> ThemeNameOf(OrDefault(g("appearance", "theme"), "default")),
          status_x_var |-> g("spacing", "status_x"),
          status_y_var |-> g("spacing", "status_y"),
          time_x_var |-> g("spacing", "time_x"),
          time_y_var |-> g("spacing", "time_y"),
          date_x_var |-> g("spacing", "date_x"),
          date_y_var |-> g("spacing", "date_y"),
          weather_x_var |-> g("spacing", "weather_x"),
          weather_y_var |-> g("spacing", "weather_y"),
          center_x_var |-> g("spacing", "time_x"),
          center_y_var |-> g("spacing", "time_y"),
          use_24h_var |-> g("display", "use_24h_format"),
          show_seconds_var |-> g("display", "show_seconds"),
          hourly_chime_var |-> g("display", "hourly_chime"),
          weather_refresh_chime_var |-> g("display", "weather_refresh_chime"),
          launch_at_boot_var |-> g("display", "launch_at_boot"),
          snap_to_edges_var |-> g("display", "snap_to_edges"),
          click_through_locked_var |-> g("display", "click_through_locked"),
          date_format_var |-> IF dfmt \in DOMAIN date_format_map_reverse
                              THEN date_format_map_reverse[dfmt]
                              ELSE "Full (Saturday, January 11)" ]

\* apply_instant_preview(): settings_window.py:1163-1204
apply_instant_preview(c, k) ==
    SetSeq(c,
      << <<"fonts", "family", k.font_family_var>>,
         <<"fonts", "time_size", k.time_size_var>>,
         <<"fonts", "date_size", k.date_size_var>>,
         <<"fonts", "weather_size", k.weather_size_var>>,
         <<"colors", "text", k.text_color_var>>,
         <<"colors", "shadow", k.shadow_color_var>>,
         <<"colors", "status", k.status_color_var>>,
         <<"colors", "lock_colors", k.lock_colors_var>>,
         <<"colors", "time_color", k.time_color_var>>,
         <<"colors", "date_color", k.date_color_var>>,
         <<"colors", "weather_color", k.weather_color_var>>,
         <<"appearance", "opacity", k.opacity_var>>,
         <<"appearance", "scale", k.scale_var>>,
         <<"appearance", "shadow_offset_x", k.shadow_offset_x_var>>,
         <<"appearance", "shadow_offset_y", k.shadow_offset_y_var>>,
         <<"spacing", "status_x", k.status_x_var>>,
         <<"spacing", "status_y", k.status_y_var>>,
         <<"spacing", "time_x", k.time_x_var>>,
         <<"spacing", "time_y", k.time_y_var>>,
         <<"spacing", "date_x", k.date_x_var>>,
         <<"spacing", "date_y", k.date_y_var>>,
         <<"spacing", "weather_x", k.weather_x_var>>,
         <<"spacing", "weather_y", k.weather_y_var>>,
         <<"display", "use_24h_format", k.use_24h_var>>,
         <<"display", "show_seconds", k.show_seconds_var>>,
         <<"display", "snap_to_edges", k.snap_to_edges_var>>,
         <<"display", "click_through_locked", k.click_through_locked_var>> >>
      \o IF k.date_format_var \in DOMAIN date_format_map
         THEN << <<"display", "date_format", date_format_map[k.date_format_var]>> >>
         ELSE << >>)

\* what a handler hands back (ret: what the ConfigManager call it makes
\* returned; calls: the calls it made on the manager and the widget, in order)
UI(c, k, snap, boot, exc) ==
    [cm |-> c, ctl |-> k, snap |-> snap, boot |-> boot, ret |-> "None", exc |-> exc,
     calls |-> << >>]

\* toggle_color_lock(): settings_window.py:1042-1059
toggle_color_lock(c, k, snap, boot) ==
    LET k1 == IF k.lock_colors_var
              THEN [k EXCEPT !.time_color_var = k.text_color_var,
                             !.date_color_var = k.text_color_var,
                             !.weather_color_var = k.text_color_var]
              ELSE k
        r == apply_instant_preview(c, k1)
    IN  UI(r.cm, k1, snap, boot, r.exc)

\* choose_color('text', ...) with the colour picked: settings_window.py:1140-1156
choose_text_color(c, k, snap, boot, color) ==
    LET k1 == [k EXCEPT !.text_color_var = color]
        k2 == IF k1.lock_colors_var
              THEN [k1 EXCEPT !.time_color_var = color,
                              !.date_color_var = color,
                              !.weather_color_var = color]
              ELSE k1
        r == apply_instant_preview(c, k2)
    IN  UI(r.cm, k2, snap, boot, r.exc)

\* the sets on_apply() makes from the manual-apply controls, in order:
\* settings_window.py:1208-1230
ApplySets(k) ==
    << <<"location", "zip_code", k.zip_entry>>,
       <<"location", "country", k.country_entry>>,
       <<"updates", "weather_interval", k.weather_interval_var * MsPerMinute>> >>
    \o (IF k.weather_format_var \in DOMAIN format_map
        THEN << <<"weather", "display_format", format_map[k.weather_format_var]>> >>
        ELSE << >>)
    \o << <<"weather", "show_attribution", k.show_weather_attribution_var>>,
          <<"weather", "show_emoji", k.show_emoji_var>>,
          <<"weather", "show_forecast", k.show_forecast_var>>,
          <<"display", "hourly_chime", k.hourly_chime_var>>,
          <<"display", "weather_refresh_chime", k.weather_refresh_chime_var>>,
          <<"display", "click_through_locked", k.click_through_locked_var>>,
          <<"display", "launch_at_boot", k.launch_at_boot_var>> >>

\* faulty variant of on_apply(): the interval of the control is added to the
\* stored interval
on_apply_accumulates(c, k, snap, boot) ==
    LET r1 == SetSeq(c, [ApplySets(k) EXCEPT ![3] =
                           <<"updates", "weather_interval",
                             CM_get(c, "updates", "weather_interval")
                               + k.weather_interval_var * MsPerMinute>>])
    IN  IF r1.exc # "none"
        THEN [UI(r1.cm, k, snap, boot, r1.exc) EXCEPT !.calls = <<"set">>]
        ELSE LET r2 == apply_instant_preview(r1.cm, k)
             \* set_launch_at_boot(launch_at_boot_var) has run before the preview
             IN  [UI(r2.cm, k, snap, k.launch_at_boot_var, r2.exc) EXCEPT !.calls =
                    <<"set", "set_launch_at_boot", "apply_instant_preview">>
                    \o IF r2.exc # "none" THEN << >>
                       ELSE <<"clear_status_message", "manual_weather_refresh">>]

\* on_apply(): settings_window.py:1206-1240
on_apply(c, k, snap, boot) ==
    LET r1 == SetSeq(c, ApplySets(k))
    IN  IF r1.exc # "none"
        THEN [UI(r1.cm, k, snap, boot, r1.exc) EXCEPT !.calls = <<"set">>]
        ELSE LET r2 == apply_instant_preview(r1.cm, k)
             \* set_launch_at_boot(launch_at_boot_var) has run before the preview
             IN  [UI(r2.cm, k, snap, k.launch_at_boot_var, r2.exc) EXCEPT !.calls =
                    <<"set", "set_launch_at_boot", "apply_instant_preview">>
                    \o IF r2.exc # "none" THEN << >>
                       ELSE <<"clear_status_message", "manual_weather_refresh">>]

\* _deep_copy_config(): settings_window.py:1291-1303
_deep_copy_config(c) == c.config


\* reload_all_settings(): settings_window.py:183-275.  The controls are re-read
\* section by section; config.get raises on a section that is not a dict, the
\* handler's `except Exception: pass` ends it there, and the controls read so
\* far, but not the snapshot, are updated.
ReloadOrder == <<"location", "updates", "weather", "fonts", "colors",
                 "appearance", "spacing", "display">>
ReloadStage(c, k, section) ==
    LET n == NewControls(c)
        fmt == CM_get(c, "weather", "display_format")
        dfmt == OrDefault(CM_get(c, "display", "date_format"), "%A, %B %d")
    IN  CASE section = "location" ->
               [k EXCEPT !.zip_entry = n.zip_entry, !.country_entry = n.country_entry]
          [] section = "updates" ->
               [k EXCEPT !.weather_interval_var = n.weather_interval_var]
          [] section = "weather" ->
               [k EXCEPT !.weather_format_var =
                            IF fmt \in DOMAIN format_map_reverse
                            THEN format_map_reverse[fmt] ELSE @,
                         !.show_weather_attribution_var = n.show_weather_attribution_var,
                         !.show_emoji_var = n.show_emoji_var,
                         !.show_forecast_var = n.show_forecast_var]
          [] section = "fonts" ->
               [k EXCEPT !.font_family_var = n.font_family_var,
                         !.time_size_var = n.time_size_var,
                         !.date_size_var = n.date_size_var,
                         !.weather_size_var = n.weather_size_var]
          [] section = "colors" ->
               [k EXCEPT !.text_color_var = n.text_color_var,
                         !.shadow_color_var = n.shadow_color_var,
                         !.status_color_var = n.status_color_var,
                         !.lock_colors_var = n.lock_colors_var,
                         !.time_color_var = n.time_color_var,
                         !.date_color_var = n.date_color_var,
                         !.weather_color_var = n.weather_color_var]
          [] section = "appearance" ->
               [k EXCEPT !.opacity_var = n.opacity_var,
                         !.scale_var = n.scale_var,
                         !.shadow_offset_x_var = n.shadow_offset_x_var,
                         !.shadow_offset_y_var = n.shadow_offset_y_var,
                         !.theme_var = n.theme_var]
          [] section = "spacing" ->
               [k EXCEPT !.status_x_var = n.status_x_var, !.status_y_var = n.status_y_var,
                         !.time_x_var = n.time_x_var, !.time_y_var = n.time_y_var,
                         !.date_x_var = n.date_x_var, !.date_y_var = n.date_y_var,
                         !.weather_x_var = n.weather_x_var, !.weather_y_var = n.weather_y_var,
                         !.center_x_var = n.center_x_var, !.center_y_var = n.center_y_var]
          [] OTHER ->
               [k EXCEPT !.use_24h_var = n.use_24h_var,
                         !.show_seconds_var = n.show_seconds_var,
                         !.hourly_chime_var = n.hourly_chime_var,
                         !.weather_refresh_chime_var = n.weather_refresh_chime_var,
                         !.launch_at_boot_var = n.launch_at_boot_var,
                         !.snap_to_edges_var = n.snap_to_edges_var,
                         !.click_through_locked_var = n.click_through_locked_var,
                         !.date_format_var =
                            IF dfmt \in DOMAIN date_format_map_reverse
                            THEN date_format_map_reverse[dfmt] ELSE @]

SectionReadable(c, section) ==
    section \in DOMAIN c.config /\ IsDict(c.config[section])

RECURSIVE ReloadFrom(_, _, _)
\* [ctl, ok]: the controls after the stages from i on, and whether all were read
ReloadFrom(c, k, i) ==
    IF i > Len(ReloadOrder) THEN [ctl |-> k, ok |-> TRUE]
    ELSE IF ~SectionReadable(c, ReloadOrder[i]) THEN [ctl |-> k, ok |-> FALSE]
    ELSE ReloadFrom(c, ReloadStage(c, k, ReloadOrder[i]), i + 1)

reload_all_settings(c, k, snap, boot) ==
    LET rd == ReloadFrom(c, k, 1)
    IN  IF ~rd.ok THEN UI(c, rd.ctl, snap, boot, "none")
        ELSE LET t == toggle_color_lock(c, rd.ctl, snap, boot)
             IN  IF t.exc # "none" THEN UI(t.cm, t.ctl, snap, boot, "none")
                 ELSE UI(t.cm, t.ctl, _deep_copy_config(t.cm), boot, "none")

\* on_theme_selected(), the selector showing `name`: settings_window.py:1305-1352
ThemeIdOf(name) ==
    IF \E tid \in DOMAIN THEMES : THEMES[tid].name = name
    THEN CHOOSE tid \in DOMAIN THEMES : THEMES[tid].name = name
    ELSE "None"

on_theme_selected(c, k, snap, boot, name) ==
    LET k0 == [k EXCEPT !.theme_var = name]
        theme_id == ThemeIdOf(name)
    IN  IF name = "Custom" \/ theme_id = "None" THEN UI(c, k0, snap, boot, "none")
        ELSE LET r == apply_theme_to_config(c, theme_id)
                 theme == get_theme(theme_id)
                 k1 == [k0 EXCEPT !.text_color_var = theme.colors.text,
                                  !.shadow_color_var = theme.colors.shadow,
                                  !.status_color_var = theme.colors.status,
                                  !.time_color_var = theme.colors.time_color,
                                  !.date_color_var = theme.colors.date_color,
                                  !.weather_color_var = theme.colors.weather_color,
                                  !.font_family_var = theme.fonts.family,
                                  !.opacity_var = theme.appearance.opacity]
             IN  IF r.exc # "none" THEN UI(r.cm, k0, snap, boot, r.exc)
                 ELSE LET p == apply_instant_preview(r.cm, k1)
                      IN  UI(p.cm, k1, snap, boot, p.exc)

\* on_instance_changed(), the selector showing new_instance, in the window of
\* the widget `widget`: settings_window.py:110-121
on_instance_changed(c, k, snap, boot, new_instance, widget) ==
    IF new_instance = widget THEN UI(c, k, snap, boot, "none")
    ELSE LET a == on_apply(c, k, snap, boot)
             sw == CM_switch_instance(a.cm, new_instance)
         IN  IF a.exc # "none" THEN a
             ELSE IF sw.exc # "none"
             THEN [UI(sw.cm, a.ctl, snap, a.boot, sw.exc) EXCEPT
                     !.calls = a.calls \o <<"switch_instance">>]
             ELSE IF sw.ret = "True"
             THEN [reload_all_settings(sw.cm, a.ctl, snap, a.boot) EXCEPT
                     !.ret = "True",
                     !.calls = a.calls \o <<"switch_instance", "reload_all_settings",
                                            "show_toast">>]
             ELSE [UI(sw.cm, a.ctl, snap, a.boot, "none") EXCEPT
                     !.ret = "False", !.calls = a.calls \o <<"switch_instance">>]

\* the id both add_new_instance and launch_new_instance generate:
\* settings_window.py:126-130, timedateweather.py:814-818
NextInstanceNum(c) ==
    CHOOSE n \in 1..(Len(get_all_instances(c)) + 1) :
        /\ ~InList(InstName(n), get_all_instances(c))
        /\ \A m \in 1..(n - 1) : InList(InstName(m), get_all_instances(c))

\* launch_new_instance(): timedateweather.py:810-833.  [cm, started]: `started`
\* is the id the new widget process is started with
launch_new_instance(c, io) ==
    LET new_instance_id == InstName(NextInstanceNum(c))
        r == CM_add_instance(c, new_instance_id, io)
    IN  [cm |-> r.cm, started |-> IF r.exc = "none" THEN new_instance_id ELSE "None"]

\* add_new_instance(): settings_window.py:123-146.  io1, io2: the outcomes of
\* the two saves.  [cm, combo, reported, started, exc]
add_new_instance(c, combo, io1, io2) ==
    LET new_instance_id == InstName(NextInstanceNum(c))
        r == CM_add_instance(c, new_instance_id, io1)
        l == launch_new_instance(r.cm, io2)
    IN  IF r.exc # "none"
        THEN [cm |-> r.cm, combo |-> combo, reported |-> "None", started |-> "None",
              exc |-> r.exc]
        ELSE IF r.ret = "True"
        THEN [cm |-> l.cm, combo |-> get_all_instances(r.cm),
              reported |-> new_instance_id, started |-> l.started, exc |-> "none"]
        ELSE [cm |-> r.cm, combo |-> combo, reported |-> "None", started |-> "None",
              exc |-> "none"]

\* remove_current_instance(), the confirmation answered yes:
\* settings_window.py:148-181.  [cm, combo, selected, ret, exc]
remove_current_instance(c, combo, selected, widget, io) ==
    LET stay(ret, exc, cm) == [cm |-> cm, combo |-> combo, selected |-> selected,
                               ret |-> ret, exc |-> exc]
        r == CM_remove_instance(c, selected, io)
    IN  IF Len(get_all_instances(c)) <= 1 THEN stay("rejected", "none", c)
        ELSE IF selected = widget THEN stay("rejected", "none", c)
        ELSE IF r.exc # "none" THEN stay("None", r.exc, r.cm)
        ELSE IF r.ret = "True"
        THEN [cm |-> r.cm, combo |-> get_all_instances(r.cm),
              selected |-> IF Len(get_all_instances(r.cm)) > 0
                           THEN get_all_instances(r.cm)[1] ELSE selected,
              ret |-> "True", exc |-> "none"]
        ELSE stay("False", "none", r.cm)

\* import_settings(), the dialog answered with the file imp:
\* settings_window.py:1369-1384
import_settings(c, k, snap, boot, imp, io) ==
    LET r == CM_import_settings(c, imp, io)
    IN  IF r.ret = "True"
        THEN [reload_all_settings(r.cm, k, snap, boot) EXCEPT !.ret = "True"]
        ELSE [UI(r.cm, k, snap, boot, "none") EXCEPT !.ret = "False"]

\* faulty variant of on_cancel: the snapshot is not put back
on_cancel_keeps(c, snap) == [c EXCEPT !.aliased = FALSE, !.shared = {}]

\* on_cancel(): settings_window.py:1257-1269.  The snapshot object becomes the
\* working copy; no entry of the root document is that object.
on_cancel(c, snap) ==
    [c EXCEPT !.config = snap, !.aliased = FALSE, !.shared = {}]

\* faulty variant of on_save(): the file is written first, the controls are
\* committed afterwards
on_save_writes_first(c, k, snap, boot, io) ==
    LET r == CM_save(c, io)
        a == on_apply(r.cm, k, snap, boot)
    IN  [a EXCEPT !.ret = r.ret,
                  !.calls = <<"save">> \o a.calls \o <<"destroy">>]

\* on_save(): settings_window.py:1242-1255
on_save(c, k, snap, boot, io) ==
    LET a == on_apply(c, k, snap, boot)
        r == CM_save(a.cm, io)
    IN  IF a.exc # "none" THEN a
        ELSE [UI(r.cm, a.ctl, snap, a.boot, r.exc) EXCEPT
                !.ret = r.ret,
                !.calls = a.calls \o <<"clear_status_message", "show_settings_border",
                                       "save", "destroy">>]

\* save_current_position() with the window at (x, y): timedateweather.py:731-744
save_current_position(c, x, y, io) ==
    LET r == SetSeq(c, << <<"position", "x", x>>, <<"position", "y", y>> >>)
    IN  IF r.exc # "none" THEN Result(r.cm, "None", "none")
        ELSE LET sv == CM_save(r.cm, io) IN Result(sv.cm, sv.ret, "none")

-----------------------------------------------------------------------------
(* Inputs *)

\* partial instance entries as a settings.json may hold them
EntryZip == [ location |-> [ zip_code |-> "10001" ] ]
EntryStyled ==
    [ location |-> [ zip_code |-> "90210", country |-> "US" ],
      colors |-> [ lock_colors |-> FALSE, text |-> "#ffffff" ],
      appearance |-> [ theme |-> "glacier" ] ]

\* the file the first run writes
FileFirstRun == JsonDump(DEFAULT_ROOT_CONFIG, <<"instance_1">>)
\* two instances, both stored partially
FileTwo ==
    JsonDump([ active_instances |-> <<"instance_1", "instance_2">>,
               instances |-> [ instance_1 |-> EntryZip, instance_2 |-> EntryStyled ] ],
             <<"instance_1", "instance_2">>)
\* the legacy single-instance document {"zip_code": "10001"}
FileLegacy == JsonDump([ zip_code |-> NonDict("10001") ], <<>>)

\* instance_3 is stored with a location section that is a string
EntryOdd == [ location |-> NonDict("str") ]
FileOdd ==
    JsonDump([ active_instances |-> <<"instance_1">>,
               instances |-> [ instance_1 |-> EntryZip, instance_3 |-> EntryOdd ] ],
             <<"instance_1", "instance_3">>)

InitFiles == {FileAbsent, FileCorrupt, FileFirstRun, FileTwo, FileLegacy, FileOdd}
\* the ids a widget process is started with (timedateweather.py:916-930)
WidgetIds == {"instance_1", "instance_2"}

ZipInputs == {"90210"}
TimeSizeInputs == {60}
TextColorInputs == {"#ff0000"}
ThemeInputs == {"Custom", "Noir Mint"}
PositionInputs == {<<120, 80>>}
\* files offered to Import: a partial instance document, a root document, a
\* text that is not JSON
ImpFlat == [parses |-> TRUE, doc |-> [ fonts |-> [ time_size |-> 72 ] ], first |-> "None"]
ImpRooted == [parses |-> TRUE, doc |-> [ instances |-> [ instance_2 |-> EntryStyled ] ],
              first |-> "instance_2"]
ImpBad == [parses |-> FALSE, doc |-> EmptyDict, first |-> "None"]
ImportInputs == {ImpFlat, ImpBad}

-----------------------------------------------------------------------------
(* State after construction, and the actions *)

SetCM(c) ==
    /\ instance_id' = c.instance_id
    /\ root_config' = c.root_config
    /\ inst_order' = c.inst_order
    /\ config' = c.config
    /\ linked_id' = c.linked_id
    /\ aliased' = c.aliased
    /\ shared' = c.shared
    /\ file' = c.file

Op(op, arg, ret, exc) ==
    [op |-> op, arg |-> arg, ret |-> ret, exc |-> exc, calls |-> << >>]

\* history of the edit session: the instance, Settings Snapshot and backing
\* file it opened with, whether an instance switch or import has replaced the
\* snapshot since, and whether Save, Reset or Import has run in it
NoSession == [id |-> "None", snap |-> EmptyDict, file |-> FileAbsent,
              switched |-> FALSE, persisted |-> FALSE]
SessionAfter(op) ==
    IF op = "open_settings"
    THEN [id |-> instance_id, snap |-> _deep_copy_config(CM), file |-> file,
          switched |-> FALSE, persisted |-> FALSE]
    ELSE [session0 EXCEPT
            !.switched = @ \/ op \in {"on_instance_changed", "import_settings"},
            !.persisted = @ \/ op \in {"on_save", "on_reset", "import_settings"}]

\* the bound on the length of a behaviour, tested before a handler is evaluated
CanStep == steps < MaxSteps

Step(op, arg, ret, exc) ==
    /\ CanStep
    /\ steps' = steps + 1
    /\ last' = Op(op, arg, ret, exc)
    /\ session0' = SessionAfter(op)

\* a step of a handler whose calls are recorded
StepCalls(op, arg, h) ==
    /\ CanStep
    /\ steps' = steps + 1
    /\ last' = [Op(op, arg, h.ret, h.exc) EXCEPT !.calls = h.calls]
    /\ session0' = SessionAfter(op)

MergeIdle == mP = EmptyDict /\ mOut = EmptyDict /\ mDone = FALSE

\* no second widget process, and no weather-fetch thread started
NoPeer == LoadBlank(FileAbsent, "None")
NoWorker == [pc |-> "idle", zip_code |-> "None", format |-> "None",
             weather_text |-> "Loading Weather"]
\* the Default Schema as the module defines it: no object of the manager is
\* one of its sections (held: pairs <<"config" or an instance id, section>>)
SchemaIntact == [doc |-> DEFAULT_INSTANCE_CONFIG, held |-> {}]
ProcIdle == peer = NoPeer /\ worker = NoWorker /\ schema = SchemaIntact

\* DesktopWidget.__init__ up to ConfigManager(instance_id): timedateweather.py:52-57
InitWith(files) ==
    \E f \in files, id \in WidgetIds, io \in IOOutcomes :
       LET r == CM_load(f, id, io)
       IN  /\ (f.exists => io = "ok")
           /\ alive = (r.exc = "none")
           /\ widget_id = id
           /\ instance_id = r.cm.instance_id
           /\ root_config = r.cm.root_config
           /\ inst_order = r.cm.inst_order
           /\ config = r.cm.config
           /\ linked_id = r.cm.linked_id
           /\ aliased = r.cm.aliased
           /\ shared = r.cm.shared
           /\ file = r.cm.file
           /\ win_open = FALSE
           /\ instance_var = id
           /\ combo_values = <<>>
           /\ original_config = EmptyDict
           /\ ctl = EmptyDict
           /\ startup_reg = FALSE
           /\ last = Op("load", id, r.ret, r.exc)
           /\ steps = 0
           /\ session0 = NoSession
           /\ MergeIdle
           /\ ProcIdle

Init == InitWith(InitFiles)

\* open_settings() -> SettingsWindow.__init__: timedateweather.py:465-472,
\* settings_window.py:16-108
OpenSettings ==
    /\ CanStep /\ alive /\ ~win_open
    /\ IF \A i \in 1..Len(ReloadOrder) : SectionReadable(CM, ReloadOrder[i])
       THEN /\ win_open' = TRUE
            /\ original_config' = _deep_copy_config(CM)
            /\ instance_var' = widget_id
            /\ combo_values' = get_all_instances(CM)
            /\ ctl' = NewControls(CM)
            /\ startup_reg' = startup_reg
            /\ Step("open_settings", widget_id, "None", "none")
       \* a create_*_tab reads a section that is not a dict: __init__ raises and
       \* open_settings swallows it (timedateweather.py:467-472); no
       \* SettingsWindow object with its controls comes to exist
       ELSE /\ UNCHANGED uiVars
            /\ Step("open_settings_failed", widget_id, "None", "AttributeError")
    /\ UNCHANGED <<alive, widget_id, cmVars, mergeVars, procVars>>

\* the result h of a handler that leaves the window open
KeepOpen(h) ==
    /\ SetCM(h.cm)
    /\ ctl' = h.ctl
    /\ original_config' = h.snap
    /\ startup_reg' = h.boot
    /\ UNCHANGED <<alive, widget_id, win_open, instance_var, combo_values, mergeVars, procVars>>

\* a handler that ends with window.destroy(): the SettingsWindow object and
\* its fields are gone
CloseWindow(c, boot) ==
    /\ SetCM(c)
    /\ startup_reg' = boot
    /\ win_open' = FALSE
    /\ instance_var' = widget_id
    /\ combo_values' = <<>>
    /\ original_config' = EmptyDict
    /\ ctl' = EmptyDict
    /\ UNCHANGED <<alive, widget_id, mergeVars, procVars>>

\* typing in the ZIP entry (a manual-apply control, no callback)
EditZip(z) ==
    /\ CanStep /\ alive /\ win_open /\ ctl.zip_entry # z
    /\ ctl' = [ctl EXCEPT !.zip_entry = z]
    /\ Step("edit_zip", z, "None", "none")
    /\ UNCHANGED <<alive, widget_id, cmVars, win_open, instance_var, combo_values,
                   original_config, startup_reg, mergeVars, procVars>>

\* ticking "launch at boot" (a manual-apply control, no callback)
ToggleLaunchAtBoot ==
    /\ CanStep /\ alive /\ win_open
    /\ ctl' = [ctl EXCEPT !.launch_at_boot_var = ~@]
    /\ Step("toggle_launch_at_boot", "", "None", "none")
    /\ UNCHANGED <<alive, widget_id, cmVars, win_open, instance_var, combo_values,
                   original_config, startup_reg, mergeVars, procVars>>

\* moving the time-size slider: its command is apply_instant_preview
SlideTimeSize(n) ==
    /\ CanStep /\ alive /\ win_open /\ ctl.time_size_var # n
    /\ \E k \in {[ctl EXCEPT !.time_size_var = n]} :
       \E r \in {apply_instant_preview(CM, k)} :
           /\ KeepOpen(UI(r.cm, k, original_config, startup_reg, r.exc))
           /\ Step("apply_instant_preview", "time_size", "None", r.exc)

ChooseTextColor(color) ==
    /\ CanStep /\ alive /\ win_open /\ ctl.text_color_var # color
    /\ \E h \in {choose_text_color(CM, ctl, original_config, startup_reg, color)} :
           KeepOpen(h) /\ Step("choose_color", color, "None", h.exc)

\* ticking "lock all text colors together": its command is toggle_color_lock
ToggleLockColors ==
    /\ CanStep /\ alive /\ win_open
    /\ \E h \in {toggle_color_lock(CM, [ctl EXCEPT !.lock_colors_var = ~@],
                                  original_config, startup_reg)} :
           KeepOpen(h) /\ Step("toggle_color_lock", "", "None", h.exc)

SelectTheme(name) ==
    /\ CanStep /\ alive /\ win_open
    /\ \E h \in {on_theme_selected(CM, ctl, original_config, startup_reg, name)} :
           KeepOpen(h) /\ Step("on_theme_selected", name, "None", h.exc)

Apply ==
    /\ CanStep /\ alive /\ win_open
    /\ \E h \in {on_apply(CM, ctl, original_config, startup_reg)} :
           KeepOpen(h) /\ StepCalls("on_apply", "", h)

Save(io) ==
    /\ CanStep /\ alive /\ win_open
    /\ \E h \in {on_save(CM, ctl, original_config, startup_reg, io)} :
           /\ IF h.exc # "none" THEN KeepOpen(h) ELSE CloseWindow(h.cm, h.boot)
           /\ StepCalls("on_save", "", h)

Cancel ==
    /\ CanStep /\ alive /\ win_open
    /\ CloseWindow(on_cancel(CM, original_config), startup_reg)
    /\ Step("on_cancel", "", "None", "none")

\* on_reset(), the confirmation answered yes: settings_window.py:1271-1289
Reset(io) ==
    /\ CanStep /\ alive /\ win_open
    /\ \E r \in {CM_reset_to_defaults(CM, io)} :
           CloseWindow(r.cm, startup_reg) /\ Step("on_reset", "", "None", r.exc)

\* the "Import" button
Import(imp, io) ==
    /\ CanStep /\ alive /\ win_open
    /\ \E h \in {import_settings(CM, ctl, original_config, startup_reg, imp, io)} :
           KeepOpen(h) /\ Step("import_settings", "", h.ret, h.exc)

\* choosing an id in the instance selector
SelectInstance(id) ==
    /\ CanStep /\ alive /\ win_open /\ InList(id, combo_values) /\ id # instance_var
    /\ instance_var' = id
    /\ \E h \in {on_instance_changed(CM, ctl, original_config, startup_reg, id, widget_id)} :
           /\ SetCM(h.cm)
           /\ ctl' = h.ctl
           /\ original_config' = h.snap
           /\ startup_reg' = h.boot
           /\ StepCalls("on_instance_changed", id, h)
    /\ UNCHANGED <<alive, widget_id, win_open, combo_values, mergeVars, procVars>>

\* the "+ New" button
AddNewInstance(io) ==
    /\ CanStep /\ alive /\ win_open
    /\ NextInstanceNum(CM) + 1 <= MaxInstances
    /\ \E h \in {add_new_instance(CM, combo_values, io, io)} :
           /\ SetCM(h.cm)
           /\ combo_values' = h.combo
           /\ Step("add_new_instance", h.started, h.reported, h.exc)
    /\ UNCHANGED <<alive, widget_id, win_open, instance_var, original_config, ctl,
                   startup_reg, mergeVars, procVars>>

\* the "- Remove" button
RemoveCurrentInstance(io) ==
    /\ CanStep /\ alive /\ win_open
    /\ \E h \in {remove_current_instance(CM, combo_values, instance_var, widget_id, io)} :
           /\ SetCM(h.cm)
           /\ combo_values' = h.combo
           /\ instance_var' = h.selected
           /\ Step("remove_current_instance", instance_var, h.ret, h.exc)
    /\ UNCHANGED <<alive, widget_id, win_open, original_config, ctl, startup_reg,
                   mergeVars, procVars>>

\* end_drag / toggle_lock -> save_current_position; the settings window holds
\* the grab while it is open (settings_window.py:50)
SavePosition(pos, io) ==
    /\ CanStep /\ alive /\ ~win_open
    /\ \E r \in {save_current_position(CM, pos[1], pos[2], io)} :
           SetCM(r.cm) /\ Step("save_current_position", "", r.ret, r.exc)
    /\ UNCHANGED <<alive, widget_id, uiVars, mergeVars, procVars>>

Next ==
    \/ OpenSettings
    \/ \E z \in ZipInputs : EditZip(z)
    \/ ToggleLaunchAtBoot
    \/ \E n \in TimeSizeInputs : SlideTimeSize(n)
    \/ \E color \in TextColorInputs : ChooseTextColor(color)
    \/ ToggleLockColors
    \/ \E name \in ThemeInputs : SelectTheme(name)
    \/ Apply
    \/ \E io \in IOOutcomes : Save(io)
    \/ Cancel
    \/ \E io \in IOOutcomes : Reset(io)
    \/ \E imp \in ImportInputs, io \in IOOutcomes : Import(imp, io)
    \/ \E id \in InstanceIds : SelectInstance(id)
    \/ \E io \in IOOutcomes : AddNewInstance(io)
    \/ \E io \in IOOutcomes : RemoveCurrentInstance(io)
    \/ \E pos \in PositionInputs, io \in IOOutcomes : SavePosition(pos, io)

Spec == Init /\ [][Next]_vars

-----------------------------------------------------------------------------
(* ConfigManager driven directly through its methods, in any order.  An    *)
(* exception reaches the caller and the object stays as the method left it *)

\* a root document without "active_instances"
FileNoActive ==
    JsonDump([ instances |-> [ instance_1 |-> EntryZip, instance_2 |-> EntryStyled ] ],
             <<"instance_1", "instance_2">>)
\* a root document whose "instances" is empty
FileNoInstances ==
    JsonDump([ active_instances |-> <<>>, instances |-> EmptyDict ], <<>>)
ApiFiles == {FileAbsent, FileCorrupt, FileFirstRun, FileTwo, FileNoActive, FileNoInstances}

ApiSetInputs == { <<"location", "zip_code", "90210">>, <<"plugins", "moon", TRUE>> }
ActiveInputs == { <<>>, <<"instance_2">> }
ApiImportInputs == {ImpRooted, ImpBad}

ApiInit == InitWith(ApiFiles)

CanCall == steps < MaxApiCalls

\* what a method call leaves: the manager r.cm, nothing else
ApiStep(op, arg, r) ==
    /\ SetCM(r.cm)
    /\ Step(op, arg, r.ret, r.exc)
    /\ UNCHANGED <<alive, widget_id, uiVars, mergeVars, procVars>>

ApiSet(kv) ==
    /\ CanCall /\ alive
    /\ \E r \in {CM_set(CM, kv[1], kv[2], kv[3])} : ApiStep("set", kv, r)

ApiSave(io) ==
    /\ CanCall /\ alive
    /\ \E r \in {CM_save(CM, io)} : ApiStep("save", <<"", io>>, r)

ApiAddInstance(id, io) ==
    /\ CanCall /\ alive
    /\ \E r \in {CM_add_instance(CM, id, io)} : ApiStep("add_instance", <<id, io>>, r)

ApiRemoveInstance(id, io) ==
    /\ CanCall /\ alive
    /\ \E r \in {CM_remove_instance(CM, id, io)} : ApiStep("remove_instance", <<id, io>>, r)

ApiSwitchInstance(id) ==
    /\ CanCall /\ alive
    /\ \E r \in {CM_switch_instance(CM, id)} : ApiStep("switch_instance", <<id, "">>, r)

ApiSetActiveInstances(ids, io) ==
    /\ CanCall /\ alive
    /\ \E r \in {CM_set_active_instances(CM, ids, io)} :
           ApiStep("set_active_instances", <<ids, io>>, r)

ApiResetToDefaults(io) ==
    /\ CanCall /\ alive
    /\ \E r \in {CM_reset_to_defaults(CM, io)} : ApiStep("reset_to_defaults", <<"", io>>, r)

ApiImportSettings(imp, io) ==
    /\ CanCall /\ alive
    /\ \E r \in {CM_import_settings(CM, imp, io)} : ApiStep("import", <<"", io>>, r)

ApiNext ==
    \/ \E kv \in ApiSetInputs : ApiSet(kv)
    \/ \E io \in IOOutcomes : ApiSave(io)
    \/ \E id \in InstanceIds, io \in IOOutcomes : ApiAddInstance(id, io)
    \/ \E id \in InstanceIds, io \in IOOutcomes : ApiRemoveInstance(id, io)
    \/ \E id \in InstanceIds : ApiSwitchInstance(id)
    \/ \E ids \in ActiveInputs, io \in IOOutcomes : ApiSetActiveInstances(ids, io)
    \/ \E io \in IOOutcomes : ApiResetToDefaults(io)
    \/ \E imp \in ApiImportInputs, io \in IOOutcomes : ApiImportSettings(imp, io)

ApiSpec == ApiInit /\ [][ApiNext]_vars

(***************************************************************************)
(* The manager from its construction on: ConfigManager(config_file,        *)
(* instance_id) runs load() on whatever the backing file holds, and the    *)
(* methods are called afterwards.                                          *)
(***************************************************************************)
\* a legacy single-instance document, kept in the sections of the defaults
FileLegacySections == JsonDump(EntryZip, <<>>)
\* valid JSON of another shape: a list at the root, a list as "instances", a
\* string as the entry of instance_1
FileRootList == JsonDump(NonDict("list"), <<>>)
FileInstancesList ==
    JsonDump([ active_instances |-> <<"instance_1">>, instances |-> NonDict("list") ], <<>>)
FileEntryStr ==
    JsonDump([ active_instances |-> <<"instance_1">>,
               instances |-> [ instance_1 |-> NonDict("str") ] ], <<"instance_1">>)
LoadFiles ==
    {FileAbsent, FileCorrupt, FileFirstRun, FileTwo, FileNoActive, FileNoInstances,
     FileLegacy, FileLegacySections, FileRootList, FileInstancesList, FileEntryStr}

NotLoaded == Op("none", <<"", "">>, "None", "none")

LoadInit ==
    \E f \in LoadFiles, id \in WidgetIds :
       /\ alive = FALSE
       /\ widget_id = id
       /\ instance_id = LoadBlank(f, id).instance_id
       /\ root_config = LoadBlank(f, id).root_config
       /\ inst_order = LoadBlank(f, id).inst_order
       /\ config = LoadBlank(f, id).config
       /\ linked_id = LoadBlank(f, id).linked_id
       /\ aliased = LoadBlank(f, id).aliased
       /\ shared = LoadBlank(f, id).shared
       /\ file = f
       /\ win_open = FALSE
       /\ instance_var = id
       /\ combo_values = <<>>
       /\ original_config = EmptyDict
       /\ ctl = EmptyDict
       /\ startup_reg = FALSE
       /\ last = NotLoaded
       /\ steps = 0
       /\ session0 = NoSession
       /\ MergeIdle
       /\ ProcIdle

\* ConfigManager.__init__: load() on the backing file; io is the outcome of
\* the write load() attempts when the file does not exist
Construct(io) ==
    /\ CanCall /\ ~alive /\ last = NotLoaded
    /\ file.exists => io = "ok"
    /\ \E r \in {CM_load(file, widget_id, io)} :
           /\ SetCM(r.cm)
           /\ Step("load", <<widget_id, io>>, r.ret, r.exc)
           /\ alive' = (r.exc = "none")
    /\ UNCHANGED <<widget_id, uiVars, mergeVars, procVars>>

LoadNext ==
    \/ \E io \in IOOutcomes : Construct(io)
    \/ ApiNext

LoadSpec == LoadInit /\ [][LoadNext]_vars

(***************************************************************************)
(* The theme catalog applied to a session: apply_theme_to_config(config,   *)
(* theme_id) called on the manager, between calls of set().                *)
(***************************************************************************)
ThemeFiles == {FileFirstRun, FileTwo}
\* two ids of the catalog and one it does not have
ThemeIdInputs == {"noir_mint", "glacier", "ocean_blue"}
ThemeSetInputs ==
    { <<"spacing", "time_x", 7>>, <<"appearance", "scale", "1.5">>,
      <<"colors", "text", "#123456">> }

ThemeInit == InitWith(ThemeFiles)

ApplyTheme(theme_id) ==
    /\ CanCall /\ alive
    /\ \E r \in {apply_theme_to_config(CM, theme_id)} :
           ApiStep("apply_theme", theme_id, r)

ThemeSet(kv) ==
    /\ CanCall /\ alive
    /\ \E r \in {CM_set(CM, kv[1], kv[2], kv[3])} : ApiStep("set", kv, r)

ThemeNext ==
    \/ \E theme_id \in ThemeIdInputs : ApplyTheme(theme_id)
    \/ \E kv \in ThemeSetInputs : ThemeSet(kv)

ThemeSpec == ThemeInit /\ [][ThemeNext]_vars

(***************************************************************************)
(* import_settings(filepath) called on the manager with the files a user   *)
(* may choose, between calls of set() and switch_instance().               *)
(***************************************************************************)
\* a root document from another deployment: no entry for instance_1
ImpOther ==
    [parses |-> TRUE, doc |-> [ instances |-> [ instance_9 |-> EntryStyled ] ],
     first |-> "instance_9"]
\* a root document whose entry for instance_1 is an empty mapping and comes
\* after the entry of instance_2
ImpEmptyOwn ==
    [parses |-> TRUE,
     doc |-> [ instances |-> [ instance_2 |-> EntryStyled, instance_1 |-> EmptyDict ] ],
     first |-> "instance_2"]
\* a root document with entries for instance_1 and instance_2
ImpBoth ==
    [parses |-> TRUE,
     doc |-> [ instances |-> [ instance_2 |-> EntryStyled, instance_1 |-> EntryZip ] ],
     first |-> "instance_2"]
\* a JSON list
ImpNotMapping == [parses |-> TRUE, doc |-> NonDict("list"), first |-> "None"]
ImpEmptyInstances ==
    [parses |-> TRUE, doc |-> [ instances |-> EmptyDict ], first |-> "None"]
ImpInstancesNotMapping ==
    [parses |-> TRUE, doc |-> [ instances |-> NonDict("list") ], first |-> "None"]
\* the entry of instance_1 is a string, the entry of instance_2 a number
ImpEntryNotMapping ==
    [parses |-> TRUE,
     doc |-> [ instances |-> [ instance_1 |-> NonDict("str"), instance_2 |-> NonDict("0") ] ],
     first |-> "instance_1"]
ImportFiles ==
    {ImpFlat, ImpOther, ImpEmptyOwn, ImpBoth, ImpBad, ImpNotMapping,
     ImpEmptyInstances, ImpInstancesNotMapping, ImpEntryNotMapping}

ImportInit == InitWith({FileFirstRun, FileTwo})

ImportFile(imp, io) ==
    /\ CanCall /\ alive
    /\ \E r \in {CM_import_settings(CM, imp, io)} :
           ApiStep("import_file", <<imp, io>>, r)

ImportNext ==
    \/ \E imp \in ImportFiles, io \in IOOutcomes : ImportFile(imp, io)
    \/ \E kv \in ApiSetInputs : ApiSet(kv)
    \/ \E id \in InstanceIds : ApiSwitchInstance(id)

ImportSpec == ImportInit /\ [][ImportNext]_vars


(***************************************************************************)
(* Two widget processes on one backing file (timedateweather.py:891-932):  *)
(* the process started as instance_1 and a second one started as           *)
(* instance_2.  Each constructs its own ConfigManager, which reads the     *)
(* file once, in load(), and afterwards writes its whole root document.    *)
(***************************************************************************)
PeerFiles == {FileAbsent, FileFirstRun, FileTwo}
PeerSetInputs == { <<"location", "zip_code", "33333">>, <<"position", "x", 7>> }

\* the second process's manager on the shared file, and what a call leaves
PeerCM == [peer EXCEPT !.file = file]
SetPeer(c) ==
    /\ peer' = [c EXCEPT !.file = NoPeer.file]
    /\ file' = c.file

\* DesktopWidget("instance_1") and then DesktopWidget("instance_2"), each up
\* to ConfigManager(instance_id): timedateweather.py:52-57, 916-932
PeerInit ==
    \E f \in PeerFiles :
       \E r1 \in {CM_load(f, "instance_1", "ok")} :
       \E r2 \in {CM_load(r1.cm.file, "instance_2", "ok")} :
           /\ alive = TRUE
           /\ widget_id = "instance_1"
           /\ instance_id = r1.cm.instance_id
           /\ root_config = r1.cm.root_config
           /\ inst_order = r1.cm.inst_order
           /\ config = r1.cm.config
           /\ linked_id = r1.cm.linked_id
           /\ aliased = r1.cm.aliased
           /\ shared = r1.cm.shared
           /\ file = r2.cm.file
           /\ peer = [r2.cm EXCEPT !.file = NoPeer.file]
           /\ worker = NoWorker
           /\ schema = SchemaIntact
           /\ win_open = FALSE
           /\ instance_var = "instance_1"
           /\ combo_values = <<>>
           /\ original_config = EmptyDict
           /\ ctl = EmptyDict
           /\ startup_reg = FALSE
           /\ last = Op("load", "instance_2", r2.ret, r2.exc)
           /\ steps = 0
           /\ session0 = NoSession
           /\ MergeIdle

\* config.set(...) in the second process
PeerSet(kv) ==
    /\ CanCall
    /\ \E r \in {CM_set(PeerCM, kv[1], kv[2], kv[3])} :
           SetPeer(r.cm) /\ Step("peer_set", kv, r.ret, r.exc)
    /\ UNCHANGED <<alive, widget_id, instance_id, root_config, inst_order, config,
                   linked_id, aliased, shared, uiVars, mergeVars, worker, schema>>

\* config.save() in the second process
PeerSave(io) ==
    /\ CanCall
    /\ \E r \in {CM_save(PeerCM, io)} :
           SetPeer(r.cm) /\ Step("peer_save", <<"", io>>, r.ret, r.exc)
    /\ UNCHANGED <<alive, widget_id, instance_id, root_config, inst_order, config,
                   linked_id, aliased, shared, uiVars, mergeVars, worker, schema>>

PeerNext ==
    \/ \E kv \in PeerSetInputs : ApiSet(kv)
    \/ \E io \in IOOutcomes : ApiSave(io)
    \/ \E kv \in PeerSetInputs : PeerSet(kv)
    \/ \E io \in IOOutcomes : PeerSave(io)

PeerSpec == PeerInit /\ [][PeerNext]_vars


(***************************************************************************)
(* The Default Schema as an object.  DEFAULT_INSTANCE_CONFIG is a module   *)
(* level dict of dicts (config_manager.py:19-104) and Python would let any *)
(* holder of one of its sections change it in place.  `schema` follows the *)
(* dict itself and the objects of the manager that ARE one of its          *)
(* sections; everything the manager takes from it goes through _deep_copy. *)
(***************************************************************************)

\* faulty variant of _deep_copy: dict(obj), the items are not copied
rebuilds_top_only(depth) == depth = 0

\* _deep_copy(obj): config_manager.py:255-262.  Whether the dict or list found
\* `depth` levels below obj is a new object in the copy: the function calls
\* itself on every value of a dict and every item of a list, at any depth
Rebuilds(depth) == depth >= 0

SchemaSections == DOMAIN DEFAULT_INSTANCE_CONFIG

\* the sections `owner` holds in common with the schema after it was bound to
\* a copy of an object that has the schema's sections `depth` levels below it
CopyHolds(owner, depth) ==
    IF Rebuilds(depth) THEN {} ELSE { <<owner, sec>> : sec \in SchemaSections }
\* `owner` was bound to another object
Rebound(held, owner) == { x \in held : x[1] # owner }
\* `to` was bound to the object `from` is
SameObject(held, from, to) ==
    Rebound(held, to) \cup { <<to, x[2]>> : x \in { y \in held : y[1] = from } }

\* root_config = _deep_copy(DEFAULT_ROOT_CONFIG), whose instances.instance_1 is
\* DEFAULT_INSTANCE_CONFIG itself, and config = _deep_copy(DEFAULT_INSTANCE_CONFIG):
\* config_manager.py:139-140, 143-144
SchemaOnFallback(s) ==
    [s EXCEPT !.held = CopyHolds("instance_1", 3) \cup CopyHolds("config", 1)]

\* root_config["instances"][id] = config: config_manager.py:160
SchemaOnSave(s, id) == [s EXCEPT !.held = SameObject(@, "config", id)]

\* config[category][key] = value for each of `sets`: a section of the working
\* copy that is a section of the schema changes for both (config_manager.py:180-187)
SchemaOnSets(s, sets) ==
    [s EXCEPT !.doc = CfgSetSeq(@, SelectSeq(sets, LAMBDA t : <<"config", t[1]>> \in s.held))]

\* config = _merge_with_defaults(loaded, DEFAULT_INSTANCE_CONFIG):
\* merged[category].update(values) changes the object merged[category] is, and
\* merged[category] = values binds the key to the loaded object
\* (config_manager.py:245-253)
SchemaOnMerge(s, loaded) ==
    LET copied == { x[2] : x \in CopyHolds("config", 1) }
        updated == { cat \in DOMAIN loaded \cap SchemaSections : IsDict(loaded[cat]) }
    IN  [ doc |-> [ cat \in DOMAIN s.doc |->
                      IF cat \in copied \cap updated
                      THEN DictUpdate(s.doc[cat], loaded[cat]) ELSE s.doc[cat] ],
          held |-> Rebound(s.held, "config")
                     \cup { <<"config", cat>> : cat \in copied \ (DOMAIN loaded \ updated) } ]

\* root_config["instances"][id] = _deep_copy(DEFAULT_INSTANCE_CONFIG):
\* config_manager.py:130, 209
SchemaOnNewEntry(s, id) == [s EXCEPT !.held = Rebound(@, id) \cup CopyHolds(id, 1)]

\* load(): config_manager.py:117-145
SchemaOnLoad(s, f, id) ==
    IF ~f.exists THEN SchemaOnSave(SchemaOnFallback(s), id)
    ELSE IF ~f.parses THEN SchemaOnFallback(s)
    ELSE LET root0 == JsonLoad(f)
             root1 == IF ~HasKey(root0, "instances")
                      THEN _migrate_to_instances(root0) ELSE root0
         IN  IF ~IsDict(root1.instances) THEN s
             ELSE LET s1 == IF id \notin DOMAIN root1.instances
                            THEN SchemaOnNewEntry(s, id) ELSE s
                      entry == EnsureInstance(root1, id).instances[id]
                  IN  IF ~IsDict(entry) THEN s1 ELSE SchemaOnMerge(s1, entry)

\* the sets apply_theme_to_config makes: themes.py:164-184
ThemeSets(theme_id) ==
    IF theme_id \notin DOMAIN THEMES THEN << >>
    ELSE SetsOf("colors", THEMES[theme_id].colors)
           \o SetsOf("fonts", THEMES[theme_id].fonts)
           \o SetsOf("appearance", THEMES[theme_id].appearance)
           \o << <<"appearance", "theme", theme_id>> >>

SchemaFiles == {FileAbsent, FileCorrupt, FileTwo}
SchemaSetInputs == { <<"location", "zip_code", "90210">> }
SchemaThemeInputs == {"glacier"}
SchemaNewIds == {"instance_3"}
SchemaImportInputs == {ImpFlat}

SchemaInit == LoadInit /\ file \in SchemaFiles

\* what a method call leaves: the manager r.cm and the schema s1
SchemaStep(op, arg, r, s1) ==
    /\ SetCM(r.cm)
    /\ Step(op, arg, r.ret, r.exc)
    /\ schema' = s1
    /\ UNCHANGED <<widget_id, uiVars, mergeVars, peer, worker>>

SchemaConstruct(io) ==
    /\ CanCall /\ ~alive /\ last = NotLoaded
    /\ file.exists => io = "ok"
    /\ \E r \in {CM_load(file, widget_id, io)} :
           /\ SchemaStep("load", <<widget_id, io>>, r, SchemaOnLoad(schema, file, widget_id))
           /\ alive' = (r.exc = "none")

SchemaSet(kv) ==
    /\ CanCall /\ alive
    /\ \E r \in {CM_set(CM, kv[1], kv[2], kv[3])} :
           SchemaStep("set", kv, r, SchemaOnSets(schema, <<kv>>))
    /\ UNCHANGED alive

SchemaApplyTheme(theme_id) ==
    /\ CanCall /\ alive
    /\ \E r \in {apply_theme_to_config(CM, theme_id)} :
           SchemaStep("apply_theme", theme_id, r, SchemaOnSets(schema, ThemeSets(theme_id)))
    /\ UNCHANGED alive

SchemaSave(io) ==
    /\ CanCall /\ alive
    /\ \E r \in {CM_save(CM, io)} :
           SchemaStep("save", <<"", io>>, r, SchemaOnSave(schema, instance_id))
    /\ UNCHANGED alive

SchemaAddInstance(id, io) ==
    /\ CanCall /\ alive
    /\ \E r \in {CM_add_instance(CM, id, io)} :
           SchemaStep("add_instance", <<id, io>>, r,
                      IF r.ret = "True"
                      THEN SchemaOnSave(SchemaOnNewEntry(schema, id), instance_id)
                      ELSE schema)
    /\ UNCHANGED alive

SchemaReset(io) ==
    /\ CanCall /\ alive
    /\ \E r \in {CM_reset_to_defaults(CM, io)} :
           SchemaStep("reset_to_defaults", <<"", io>>, r,
                      SchemaOnSave([schema EXCEPT !.held = Rebound(@, "config")
                                                     \cup CopyHolds("config", 1)],
                                   instance_id))
    /\ UNCHANGED alive

SchemaSwitch(id) ==
    /\ CanCall /\ alive
    /\ \E r \in {CM_switch_instance(CM, id)} :
           SchemaStep("switch_instance", <<id, "">>, r,
                      IF r.ret = "True"
                      THEN SchemaOnMerge(schema, root_config.instances[id])
                      ELSE schema)
    /\ UNCHANGED alive

SchemaImport(imp, io) ==
    /\ CanCall /\ alive
    /\ \E r \in {CM_import_settings(CM, imp, io)} :
           SchemaStep("import", <<"", io>>, r,
                      IF ImportRejects(CM, imp) THEN schema
                      ELSE SchemaOnSave(SchemaOnMerge(schema, ImportChosen(CM, imp)),
                                        instance_id))
    /\ UNCHANGED alive

SchemaNext ==
    \/ \E io \in IOOutcomes : SchemaConstruct(io)
    \/ \E kv \in SchemaSetInputs : SchemaSet(kv)
    \/ \E theme_id \in SchemaThemeInputs : SchemaApplyTheme(theme_id)
    \/ \E io \in IOOutcomes : SchemaSave(io)
    \/ \E id \in SchemaNewIds, io \in IOOutcomes : SchemaAddInstance(id, io)
    \/ \E io \in IOOutcomes : SchemaReset(io)
    \/ \E id \in WidgetIds : SchemaSwitch(id)
    \/ \E imp \in SchemaImportInputs, io \in IOOutcomes : SchemaImport(imp, io)

SchemaSpec == SchemaInit /\ [][SchemaNext]_vars


(***************************************************************************)
(* The weather-fetch thread: timedateweather.py:338-342, 380-441.          *)
(* get_weather (a timer of the main loop) and manual_weather_refresh (the  *)
(* last call of on_apply) start a thread on fetch_weather_data; the thread *)
(* reads the widget's ConfigManager, makes the request, stores the text in *)
(* DesktopWidget.weather_text and queues update_weather_ui for the main    *)
(* loop.  `worker` follows one thread (a start while it runs is a second   *)
(* thread of the same code, not followed) and weather_text.  A step of the *)
(* thread takes the manager c and the thread's state w, and gives          *)
(* [cm, worker].                                                           *)
(***************************************************************************)

\* thread.start(): timedateweather.py:340-342, 382-384
start_fetch(w) == IF w.pc = "idle" THEN [w EXCEPT !.pc = "started"] ELSE w

\* ConfigManager.get on a section that is not a dict raises (config_manager.py:178)
GetRaises(c, section) == section \in DOMAIN c.config /\ ~IsDict(c.config[section])
\* a flag read with get(), used as a condition
Flag(c, section, key) ==
    /\ HasKey(c.config, section) /\ HasKey(c.config[section], key)
    /\ c.config[section][key] = TRUE

\* except Exception: weather_text = "Weather Unavailable", then
\* root.after(0, update_weather_ui): timedateweather.py:425-429
fetch_failed(c, w) ==
    [cm |-> c, worker |-> [w EXCEPT !.pc = "scheduled",
                                    !.weather_text = "Weather Unavailable"]]

\* fetch_weather_data() up to the request: timedateweather.py:388-415
fetch_read(c, w) ==
    IF GetRaises(c, "location") \/ GetRaises(c, "weather") THEN fetch_failed(c, w)
    ELSE IF Flag(c, "weather", "show_forecast")
    THEN [cm |-> c, worker |-> [w EXCEPT !.pc = "request",
                                         !.zip_code = CM_get(c, "location", "zip_code"),
                                         !.format = "forecast"]]
    ELSE LET display_format == CM_get(c, "weather", "display_format")
             format_strings == CM_get(c, "weather", "format_strings")
         IN  IF ~HasKey(c.config, "weather") \/ ~HasKey(c.config.weather, "format_strings")
                \/ ~IsDict(format_strings)
             THEN fetch_failed(c, w)
             ELSE [cm |-> c,
                   worker |-> [w EXCEPT !.pc = "request",
                                        !.zip_code = CM_get(c, "location", "zip_code"),
                                        !.format = IF display_format \in DOMAIN format_strings
                                                   THEN format_strings[display_format]
                                                   ELSE "%C+%t+%w"]]

\* faulty variant of the end of fetch_weather_data(): the text fetched is kept
\* in the working copy
fetch_finish_caches(c, w, net) ==
    IF net = "error" THEN fetch_failed(c, w)
    ELSE [cm |-> CM_set(c, "weather", "last_text", "data").cm,
          worker |-> [w EXCEPT !.pc = "scheduled", !.weather_text = "data"]]

\* fetch_weather_data() from the answer of the request on: the emoji flag is
\* read, weather_text is assigned and update_weather_ui is queued
\* (timedateweather.py:416-429); net is what urlopen did
fetch_finish(c, w, net) ==
    IF net = "error" \/ GetRaises(c, "weather") THEN fetch_failed(c, w)
    ELSE [cm |-> c,
          worker |-> [w EXCEPT !.pc = "scheduled",
                               !.weather_text = IF Flag(c, "weather", "show_emoji")
                                                THEN "emoji data" ELSE "data"]]

\* update_weather_ui(), run by the main loop: timedateweather.py:439-441
update_weather_ui(w) == [w EXCEPT !.pc = "idle"]

NetOutcomes == {"data", "error"}

WorkerInit == InitWith({FileFirstRun, FileTwo})

\* get_weather(): the timer of the main loop, first called by __init__
\* (timedateweather.py:207, 380-386)
GetWeather ==
    /\ CanStep /\ alive /\ worker.pc = "idle"
    /\ worker' = start_fetch(worker)
    /\ Step("get_weather", "", "None", "none")
    /\ UNCHANGED <<alive, widget_id, cmVars, uiVars, mergeVars, peer, schema>>

\* the Apply button, with the thread its last call starts
ApplyAndRefresh ==
    /\ CanStep /\ alive /\ win_open
    /\ \E h \in {on_apply(CM, ctl, original_config, startup_reg)} :
           /\ SetCM(h.cm)
           /\ ctl' = h.ctl
           /\ original_config' = h.snap
           /\ startup_reg' = h.boot
           /\ worker' = IF InList("manual_weather_refresh", h.calls)
                        THEN start_fetch(worker) ELSE worker
           /\ StepCalls("on_apply", "", h)
    /\ UNCHANGED <<alive, widget_id, win_open, instance_var, combo_values, mergeVars,
                   peer, schema>>

\* a step of the thread: what it leaves is the manager and the thread state
\* the step returns
WorkerStep(op, arg, r) ==
    /\ SetCM(r.cm)
    /\ worker' = r.worker
    /\ Step(op, arg, "None", "none")
    /\ UNCHANGED <<alive, widget_id, uiVars, mergeVars, peer, schema>>

FetchRead ==
    /\ CanStep /\ alive /\ worker.pc = "started"
    /\ \E r \in {fetch_read(CM, worker)} : WorkerStep("fetch_read", "", r)

FetchFinish(net) ==
    /\ CanStep /\ alive /\ worker.pc = "request"
    /\ \E r \in {fetch_finish(CM, worker, net)} : WorkerStep("fetch_finish", net, r)

UpdateWeatherUi ==
    /\ CanStep /\ alive /\ worker.pc = "scheduled"
    /\ worker' = update_weather_ui(worker)
    /\ Step("update_weather_ui", "", "None", "none")
    /\ UNCHANGED <<alive, widget_id, cmVars, uiVars, mergeVars, peer, schema>>

WorkerNext ==
    \/ OpenSettings
    \/ \E z \in ZipInputs : EditZip(z)
    \/ \E n \in TimeSizeInputs : SlideTimeSize(n)
    \/ ApplyAndRefresh
    \/ Cancel
    \/ GetWeather
    \/ FetchRead
    \/ \E net \in NetOutcomes : FetchFinish(net)
    \/ UpdateWeatherUi

WorkerSpec == WorkerInit /\ [][WorkerNext]_vars

-----------------------------------------------------------------------------
(* The Merge Engine alone: _merge_with_defaults(P, DEFAULT_INSTANCE_CONFIG) *)
(* for loaded documents P over three sections                              *)

Absent == [absent |-> TRUE]
LocationInputs ==
    { Absent, EmptyDict,
      [ zip_code |-> "10001" ],
      [ zip_code |-> "10001", country |-> "CA" ],
      [ zip_code |-> "10001", region |-> "NY" ],
      NonDict("str") }
WeatherInputs ==
    { Absent,
      [ format_strings |-> EmptyDict ],
      [ format_strings |-> [ standard |-> "%t" ] ],
      [ display_format |-> "simple", show_sunrise |-> TRUE ] }
\* a section the Default Schema does not define
PluginsInputs == { Absent, [ moon |-> TRUE ], NonDict("list") }

MergeDoc(location, weather, plugins) ==
    LET given == [ location |-> location, weather |-> weather, plugins |-> plugins ]
    IN  [ category \in { n \in DOMAIN given : given[n] # Absent } |-> given[category] ]
MergeInputs ==
    { MergeDoc(l, w, p) : l \in LocationInputs, w \in WeatherInputs, p \in PluginsInputs }

MergeInit ==
    /\ mP \in MergeInputs
    /\ mOut = EmptyDict
    /\ mDone = FALSE
    /\ \E r \in {CM_load(FileFirstRun, "instance_1", "ok")} :
           /\ alive = TRUE
           /\ widget_id = "instance_1"
           /\ instance_id = r.cm.instance_id
           /\ root_config = r.cm.root_config
           /\ inst_order = r.cm.inst_order
           /\ config = r.cm.config
           /\ linked_id = r.cm.linked_id
           /\ aliased = r.cm.aliased
           /\ shared = r.cm.shared
           /\ file = r.cm.file
           /\ last = Op("load", "instance_1", r.ret, r.exc)
    /\ win_open = FALSE
    /\ instance_var = "instance_1"
    /\ combo_values = <<>>
    /\ original_config = EmptyDict
    /\ ctl = EmptyDict
    /\ startup_reg = FALSE
    /\ steps = 0
    /\ session0 = NoSession
    /\ ProcIdle

Merge ==
    /\ ~mDone
    /\ mOut' = _merge_with_defaults(mP, DEFAULT_INSTANCE_CONFIG)
    /\ mDone' = TRUE
    /\ UNCHANGED <<alive, widget_id, cmVars, uiVars, histVars, mP, procVars>>

MergeNext == Merge

MergeSpec == MergeInit /\ [][MergeNext]_vars

-----------------------------------------------------------------------------
(* Properties *)

\* the entry the backing file f holds for instance id, Absent when it holds none
FileEntry(f, id) ==
    IF /\ f.exists /\ f.parses
       /\ HasKey(f.doc, "instances") /\ HasKey(f.doc.instances, id)
    THEN f.doc.instances[id]
    ELSE Absent
\* that entry as load() reads it
LoadedEntry(f, id) ==
    IF FileEntry(f, id) # Absent /\ IsDict(FileEntry(f, id))
    THEN _merge_with_defaults(FileEntry(f, id), DEFAULT_INSTANCE_CONFIG)
    ELSE FileEntry(f, id)
\* the zip code the backing file f holds for instance id
PersistedZip(f, id) ==
    IF /\ FileEntry(f, id) # Absent
       /\ HasKey(FileEntry(f, id), "location")
       /\ HasKey(FileEntry(f, id).location, "zip_code")
    THEN FileEntry(f, id).location.zip_code
    ELSE "None"
\* the ids the backing file f lists as instances and as active
FileInstances(f) ==
    IF f.exists /\ f.parses /\ HasKey(f.doc, "instances") /\ IsDict(f.doc.instances)
    THEN DOMAIN f.doc.instances ELSE {}
FileActive(f) ==
    IF f.exists /\ f.parses /\ HasKey(f.doc, "active_instances")
    THEN f.doc.active_instances ELSE <<>>

\* C1: Cancel restores exactly.  When an edit session that saw no instance
\* switch and no import ends with Cancel, the working copy equals the snapshot
\* S0 the session opened with, whatever previews, theme selections and Applies
\* came in between.
C1_CancelRestores ==
    (last.op = "on_cancel" /\ ~session0.switched) => config = session0.snap

\* C1 witness: a session in which Apply registered launch-at-boot (so Apply
\* changed the working copy) was cancelled, and the working copy is S0 again
C1_Witness ==
    /\ last.op = "on_cancel" /\ ~session0.switched
    /\ startup_reg = TRUE
    /\ session0.snap.display.launch_at_boot = FALSE
    /\ config = session0.snap

\* C2: previews are never persisted on their own.  When an edit session with
\* no Save, Reset or Import ends with Cancel, the backing file's entry for the
\* edited instance reads as it read when the session opened.
C2_PreviewNotPersisted ==
    ( /\ last.op = "on_cancel" /\ ~session0.persisted
      /\ FileEntry(session0.file, session0.id) # Absent )
    => LoadedEntry(file, session0.id) = LoadedEntry(session0.file, session0.id)

\* C3: apply-before-switch.  When the instance selector switches away from
\* instance A while A's zip code entry was edited, the backing file holds the
\* edited zip code for A afterwards.
C3_ApplyBeforeSwitchPersists ==
    [][ ( /\ last'.op = "on_instance_changed" /\ last'.ret = "True"
          /\ ctl.zip_entry # CM_get(CM, "location", "zip_code") )
        => PersistedZip(file', instance_id) = ctl.zip_entry ]_vars

\* C4: after load and any sequence of ConfigManager calls, the root
\* document's "instances" mapping is a non-empty mapping.
C4_InstancesNonEmpty ==
    alive => ( /\ HasKey(root_config, "instances")
               /\ IsDict(root_config.instances)
               /\ DOMAIN root_config.instances # {} )

\* C4 witness: a remove_instance that succeeded left exactly one instance
C4_Witness ==
    /\ last.op = "remove_instance" /\ last.ret = "True"
    /\ Cardinality(DOMAIN root_config.instances) = 1

\* C5: with exactly one instance, remove_instance(id) returns failure for
\* every id and leaves "instances", "active_instances" and the backing file
\* unchanged.
C5_LastInstanceKept ==
    [][ ( /\ last'.op = "remove_instance"
          /\ Cardinality(DOMAIN root_config.instances) = 1 )
        => ( /\ last'.ret = "False" /\ last'.exc = "none"
             /\ root_config' = root_config
             /\ inst_order' = inst_order
             /\ file' = file ) ]_vars

\* C5 witness: remove_instance was called on the only instance and refused
C5_Witness ==
    /\ last.op = "remove_instance" /\ last.ret = "False"
    /\ DOMAIN root_config.instances = {last.arg[1]}

\* C6: when remove_instance(id) returns success and the file was written, id
\* is afterwards absent from the instances and from the active list, in memory
\* and in the backing file.
C6_RemovedIsGone ==
    [][ ( /\ last'.op = "remove_instance" /\ last'.ret = "True"
          /\ last'.arg[2] = "ok" )
        => ( /\ ~InList(last'.arg[1], get_all_instances(CM)')
             /\ last'.arg[1] \notin DOMAIN root_config'.instances
             /\ ~InList(last'.arg[1], get_active_instances(CM)')
             /\ last'.arg[1] \notin FileInstances(file')
             /\ ~InList(last'.arg[1], FileActive(file')) ) ]_vars

\* C7: removing the instance the open edit session has checked out is
\* rejected and leaves the root document and the backing file unchanged.
C7_RemoveCheckedOutRejected ==
    [][ ( /\ last'.op = "remove_current_instance"
          /\ instance_var = instance_id )
        => ( /\ last'.ret = "rejected"
             /\ root_config' = root_config
             /\ file' = file ) ]_vars

\* the mappings nested in a section of the Default Schema
NestedMappings == { <<"weather", "format_strings">> }
\* every section of the document P is a mapping, and so is what P holds at
\* the place of a nested mapping of the schema
WellShaped(P) ==
    /\ \A S \in DOMAIN P : IsDict(P[S])
    /\ \A n \in NestedMappings :
          (n[1] \in DOMAIN P /\ n[2] \in DOMAIN P[n[1]]) => IsDict(P[n[1]][n[2]])
\* out has every section and key of D, the keys of D's nested mappings included
HasEveryKey(out, D) ==
    /\ \A S \in DOMAIN D :
          /\ S \in DOMAIN out
          /\ \A k \in DOMAIN D[S] : k \in DOMAIN out[S]
    /\ \A n \in NestedMappings :
          \A k \in DOMAIN D[n[1]][n[2]] : k \in DOMAIN out[n[1]][n[2]]

\* C8: merge totality.  For every loaded document P whose sections are
\* mappings, merge(P, D) has every section of D and every key of every
\* section of D, the keys of weather.format_strings included; merge({}, D) = D.
C8_MergeTotal ==
    (mDone /\ WellShaped(mP)) =>
        /\ HasEveryKey(mOut, DEFAULT_INSTANCE_CONFIG)
        /\ (mP = EmptyDict => mOut = DEFAULT_INSTANCE_CONFIG)

\* C9: merge precedence.  For every section S of P and D that P holds as a
\* mapping, and every key k: merge(P, D)[S][k] is P[S][k] when k is in P[S] and
\* D[S][k] otherwise.
C9_MergePrecedence ==
    mDone =>
        \A S \in DOMAIN mP \cap DOMAIN DEFAULT_INSTANCE_CONFIG :
            IsDict(mP[S]) =>
                /\ DOMAIN mOut[S] = DOMAIN mP[S] \cup DOMAIN DEFAULT_INSTANCE_CONFIG[S]
                /\ \A k \in DOMAIN mOut[S] :
                      mOut[S][k] = IF k \in DOMAIN mP[S] THEN mP[S][k]
                                   ELSE DEFAULT_INSTANCE_CONFIG[S][k]

\* C9 witness: a merged section in which a loaded key replaced the default
\* and another key kept its default
C9_Witness ==
    /\ mDone /\ "location" \in DOMAIN mP /\ IsDict(mP.location)
    /\ "zip_code" \in DOMAIN mP.location /\ "country" \notin DOMAIN mP.location
    /\ mOut.location.zip_code = "10001"
    /\ mOut.location.country = "US"

\* C10: merge preserves unknown data.  Every key of a loaded section that the
\* Default Schema does not define, and every loaded section it does not
\* define, is in merge(P, D) with its loaded value.
C10_MergeKeepsUnknown ==
    mDone =>
        /\ \A S \in DOMAIN mP \ DOMAIN DEFAULT_INSTANCE_CONFIG :
              S \in DOMAIN mOut /\ mOut[S] = mP[S]
        /\ \A S \in DOMAIN mP \cap DOMAIN DEFAULT_INSTANCE_CONFIG :
              IsDict(mP[S]) =>
                 \A k \in DOMAIN mP[S] \ DOMAIN DEFAULT_INSTANCE_CONFIG[S] :
                     k \in DOMAIN mOut[S] /\ mOut[S][k] = mP[S][k]

\* C10 witness: a merged document with a section and a key the schema lacks
C10_Witness ==
    /\ mDone
    /\ "plugins" \in DOMAIN mOut /\ mOut.plugins = [ moon |-> TRUE ]
    /\ "region" \in DOMAIN mOut.location /\ mOut.location.region = "NY"

LoadedFrom(f, id) ==
    /\ last.op = "load"
    /\ last.exc = "none"
    /\ widget_id = id
    /\ file = f

\* C12 as stated: loading the legacy document {"zip_code": "10001"} as
\* instance_1 gives the instance list ["instance_1"] and the zip code "10001".
C12_LegacyFlatMigrated ==
    LoadedFrom(FileLegacy, "instance_1") =>
        /\ get_all_instances(CM) = <<"instance_1">>
        /\ CM_get(CM, "location", "zip_code") = "10001"

\* C12: loading a document without an "instances" key as instance_1 wraps it
\* as the entry of instance_1, the only instance, and merges that entry with
\* the defaults section by section: a legacy document that keeps the zip code
\* in its location section reads back "10001", while a zip_code key at the
\* root of the document stays an unknown top-level entry of the working copy
\* and the location section holds the default "80701".
C12_LegacyWrappedAndMerged ==
    /\ LoadedFrom(FileLegacySections, "instance_1") =>
          /\ get_all_instances(CM) = <<"instance_1">>
          /\ get_active_instances(CM) = <<"instance_1">>
          /\ root_config.instances["instance_1"] = JsonLoad(FileLegacySections)
          /\ CM_get(CM, "location", "zip_code") = "10001"
          /\ config = _merge_with_defaults(JsonLoad(FileLegacySections),
                                           DEFAULT_INSTANCE_CONFIG)
    /\ LoadedFrom(FileLegacy, "instance_1") =>
          /\ get_all_instances(CM) = <<"instance_1">>
          /\ root_config.instances["instance_1"] = JsonLoad(FileLegacy)
          /\ config["zip_code"] = NonDict("10001")
          /\ CM_get(CM, "location", "zip_code")
               = DEFAULT_INSTANCE_CONFIG.location.zip_code

\* the sectioned legacy document has been loaded as instance_1
C12_Witness ==
    /\ LoadedFrom(FileLegacySections, "instance_1")
    /\ alive
    /\ CM_get(CM, "location", "zip_code") = "10001"
    /\ ~HasKey(JsonLoad(file), "instances")

\* C13: fresh environment.  When no backing file exists and the write
\* succeeds, load creates the file, the file holds exactly one instance,
\* instance_1, with every value of the defaults, and the zip code of the
\* session reads "80701", whichever instance id the manager was created with.
C13_FreshEnvironment ==
    [][ ( /\ last'.op = "load"
          /\ ~file.exists
          /\ last'.arg[2] = "ok" )
        => ( /\ file'.exists /\ file'.parses
             /\ FileInstances(file') = {"instance_1"}
             /\ FileEntry(file', "instance_1") = DEFAULT_INSTANCE_CONFIG
             /\ CM_get(CM, "location", "zip_code")'
                  = DEFAULT_INSTANCE_CONFIG.location.zip_code ) ]_vars

\* the methods that end in save()
PersistingOps ==
    {"save", "add_instance", "remove_instance", "set_active_instances",
     "reset_to_defaults", "import"}

LoadedRoot(f) ==
    IF HasKey(JsonLoad(f), "instances") THEN JsonLoad(f)
    ELSE _migrate_to_instances(JsonLoad(f))

\* C15: when the loaded or migrated root document has no entry for the
\* instance id of the session, load reports no error, the root document has
\* an entry for that id equal to the default instance config, and every other
\* instance entry is the one that was loaded.
C15_MissingInstanceSeeded ==
    ( /\ last.op = "load"
      /\ file.exists /\ file.parses
      /\ IsDict(LoadedRoot(file).instances)
      /\ widget_id \notin DOMAIN LoadedRoot(file).instances )
    => ( /\ last.exc = "none"
         /\ DOMAIN root_config.instances
              = DOMAIN LoadedRoot(file).instances \cup {widget_id}
         /\ root_config.instances[widget_id] = DEFAULT_INSTANCE_CONFIG
         /\ \A other \in DOMAIN LoadedRoot(file).instances :
                root_config.instances[other] = LoadedRoot(file).instances[other]
         /\ config = DEFAULT_INSTANCE_CONFIG )

\* instance_2 has been constructed on a file that stores instance_1 only,
\* partially
C15_Witness ==
    /\ last.op = "load"
    /\ alive
    /\ widget_id = "instance_2"
    /\ file = FileLegacySections
    /\ root_config.instances["instance_2"] = DEFAULT_INSTANCE_CONFIG
    /\ root_config.instances["instance_1"] = EntryZip

\* C16: a save that fails with an I/O error returns failure and leaves the
\* working copy, the root document (the entry of the session's instance
\* included) and the backing file as they were before the call.
C16_FailedSaveChangesNothing ==
    [][ ( /\ last'.op = "save"
          /\ last'.arg[2] = "ioerror" )
        => ( /\ last'.ret = "False"
             /\ config' = config
             /\ root_config' = root_config
             /\ file' = file ) ]_vars

\* a successful save() directly after the load of a parseable file
SaveAfterLoad ==
    /\ last.op = "load"
    /\ last.exc = "none"
    /\ file.exists /\ file.parses
    /\ last'.op = "save"
    /\ last'.arg[2] = "ok"

\* C17 as stated: load followed immediately by a successful save leaves the
\* decoded root document of the file equal to the root document that was in
\* memory just before the save, whether or not the stored entry was partial.
C17_RoundTripBeforeSave ==
    [][ SaveAfterLoad => JsonLoad(file') = root_config ]_vars

\* C17: load followed immediately by a successful save leaves the decoded
\* root document of the file equal to the root document in memory after the
\* save, which is the root document from before the save with the entry of
\* the session's instance replaced by the working copy (the stored entry
\* merged with the defaults).  The file equals the root document from before
\* the save when the stored entry was already complete; the working copy is
\* unchanged and loading the written file again gives the same working copy.
C17_RoundTrip ==
    [][ SaveAfterLoad =>
          /\ last'.ret = "True"
          /\ JsonLoad(file') = root_config'
          /\ root_config' = RootSetEntry(root_config, instance_id, config)
          /\ config' = config
          /\ (root_config.instances[instance_id] = config
                => JsonLoad(file') = root_config)
          /\ CM_load(file', instance_id, "ok").cm.config = config ]_vars

\* a partial stored entry has been loaded and saved at once: the file holds
\* the entry completed with the defaults
C17_Witness ==
    /\ last.op = "save" /\ last.ret = "True"
    /\ steps = 2
    /\ widget_id = "instance_1"
    /\ FileEntry(file, "instance_2") = EntryStyled
    /\ FileEntry(file, "instance_1") = config
    /\ config = _merge_with_defaults(EntryZip, DEFAULT_INSTANCE_CONFIG)
    /\ JsonLoad(file) = root_config

\* the working copy c holds the value of every manual-apply control of k
HoldsManualFields(cfg, k) ==
    /\ cfg.location.zip_code = k.zip_entry
    /\ cfg.location.country = k.country_entry
    /\ cfg.updates.weather_interval = k.weather_interval_var * MsPerMinute
    /\ (k.weather_format_var \in DOMAIN format_map
          => cfg.weather.display_format = format_map[k.weather_format_var])
    /\ cfg.weather.show_attribution = k.show_weather_attribution_var
    /\ cfg.weather.show_emoji = k.show_emoji_var
    /\ cfg.weather.show_forecast = k.show_forecast_var
    /\ cfg.display.hourly_chime = k.hourly_chime_var
    /\ cfg.display.weather_refresh_chime = k.weather_refresh_chime_var
    /\ cfg.display.click_through_locked = k.click_through_locked_var
    /\ cfg.display.launch_at_boot = k.launch_at_boot_var

\* C18: whenever the Save action closes the settings window, the entry of
\* the backing file for the instance of the session equals the working copy,
\* and the working copy holds the value of every manual-apply control.
C18_SavedIsPersisted ==
    [][ ( /\ last'.op = "on_save"
          /\ win_open /\ ~win_open' )
        => ( /\ FileEntry(file', instance_id') = config'
             /\ HoldsManualFields(config', ctl) ) ]_vars

\* C19: add_instance(id) with an id that is already a key of the instances
\* returns failure and leaves the root document, the working copy and the
\* backing file unchanged.
C19_AddExistingIsNoOp ==
    [][ ( /\ last'.op = "add_instance"
          /\ last'.arg[1] \in DOMAIN root_config.instances )
        => ( /\ last'.ret = "False"
             /\ last'.exc = "none"
             /\ root_config' = root_config
             /\ config' = config
             /\ file' = file ) ]_vars

\* add_instance of an existing id has been refused while the working copy
\* holds a zip code that was never saved
C19_Witness ==
    /\ last.op = "add_instance"
    /\ last.ret = "False"
    /\ last.arg[1] \in DOMAIN root_config.instances
    /\ config.location.zip_code = "90210"
    /\ PersistedZip(file, instance_id) # "90210"
    /\ root_config.instances[instance_id] # config

\* C20: whenever add_instance(id) with a new id returns success, the entry
\* of id equals the default instance config, id occurs in the active list
\* (appended only if it was absent), the stored entry of every other instance
\* is unchanged, and the backing file contains the new instance.
C20_AddNewInstance ==
    [][ ( /\ last'.op = "add_instance"
          /\ last'.ret = "True"
          /\ last'.arg[1] \notin DOMAIN root_config.instances )
        => ( /\ root_config'.instances[last'.arg[1]] = DEFAULT_INSTANCE_CONFIG
             /\ InList(last'.arg[1], get_active_instances(CM)')
             /\ get_active_instances(CM)'
                  = IF InList(last'.arg[1], get_active_instances(CM))
                    THEN get_active_instances(CM)
                    ELSE Append(get_active_instances(CM), last'.arg[1])
             /\ \A other \in DOMAIN root_config.instances :
                    root_config'.instances[other] = root_config.instances[other]
             /\ last'.arg[1] \in FileInstances(file') ) ]_vars

\* C21: switch_instance(id) with id among the instances returns success,
\* replaces the working copy by the merge of the stored entry of id with the
\* defaults and makes id the instance of the session, without saving: the
\* backing file and the root document, the stored entry of the instance
\* being left included, are unchanged.  With id absent it returns failure and
\* changes nothing.
C21_SwitchDoesNotSave ==
    [][ last'.op = "switch_instance" =>
          IF last'.arg[1] \in DOMAIN root_config.instances
          THEN /\ last'.ret = "True"
               /\ instance_id' = last'.arg[1]
               /\ config' = _merge_with_defaults(root_config.instances[last'.arg[1]],
                                                 DEFAULT_INSTANCE_CONFIG)
               /\ root_config' = root_config
               /\ file' = file
          ELSE /\ last'.ret = "False"
               /\ instance_id' = instance_id
               /\ config' = config
               /\ root_config' = root_config
               /\ file' = file ]_vars

\* the session has switched from instance_1 to instance_2 with a zip code set
\* and never saved; the stored entry of instance_1 and the file are as loaded
C21_Witness ==
    /\ last.op = "switch_instance" /\ last.ret = "True"
    /\ widget_id = "instance_1"
    /\ instance_id = "instance_2"
    /\ steps = 2
    /\ config = _merge_with_defaults(EntryStyled, DEFAULT_INSTANCE_CONFIG)
    /\ root_config.instances["instance_1"] = EntryZip
    /\ FileEntry(file, "instance_1") = EntryZip

\* C22: after an instance switch inside an open edit session the Settings
\* Snapshot is a copy of the working copy of the instance switched to, also
\* when re-synchronising the controls fails part-way, so that a later Cancel
\* restores a document of the instance the session has checked out.
C22_SnapshotFollowsSwitch ==
    [][ ( /\ last'.op = "on_instance_changed"
          /\ last'.ret = "True" )
        => ( /\ instance_id' = instance_var'
             /\ original_config' = _deep_copy_config(CM)' ) ]_vars

\* C23: after a confirmed Reset-to-defaults the working copy is the default
\* instance config, the entry of the backing file for the instance of the
\* session is the default instance config too, the entries of the other
\* instances are unchanged in the root document and in the file, and the
\* settings window is closed.
C23_ResetPersistsDefaults ==
    [][ last'.op = "on_reset" =>
          /\ ~win_open'
          /\ instance_id' = instance_id
          /\ config' = DEFAULT_INSTANCE_CONFIG
          /\ FileEntry(file', instance_id) = DEFAULT_INSTANCE_CONFIG
          /\ \A other \in DOMAIN root_config.instances \ {instance_id} :
                root_config'.instances[other] = root_config.instances[other]
          /\ \A other \in FileInstances(file) \ {instance_id} :
                FileEntry(file', other) = FileEntry(file, other) ]_vars

\* the sections a theme writes
ThemeSections == {"colors", "fonts", "appearance"}
\* the keys of `section` the theme T lists, the theme tag included
ThemeKeys(T, section) ==
    IF section \in ThemeSections
    THEN DOMAIN THEMES[T][section] \cup (IF section = "appearance" THEN {"theme"} ELSE {})
    ELSE {}

\* C24: applying a theme T of the catalog to a session returns True, sets
\* every key listed in the colors, fonts and appearance maps of T to the
\* value T gives it, sets appearance.theme to the id of T, and leaves every
\* other key of the working copy unchanged.
C24_ThemeFrame ==
    [][ ( /\ last'.op = "apply_theme"
          /\ last'.arg \in DOMAIN THEMES )
        => ( /\ last'.ret = "True"
             /\ \A section \in ThemeSections :
                   \A key \in DOMAIN THEMES[last'.arg][section] :
                       config'[section][key] = THEMES[last'.arg][section][key]
             /\ config'.appearance.theme = last'.arg
             /\ DOMAIN config' = DOMAIN config
             /\ \A section \in DOMAIN config :
                   /\ DOMAIN config'[section]
                        = DOMAIN config[section] \cup ThemeKeys(last'.arg, section)
                   /\ \A key \in DOMAIN config[section] \ ThemeKeys(last'.arg, section) :
                          config'[section][key] = config[section][key] ) ]_vars

\* glacier has been applied to a session whose scale and time_x had been set
C24_Witness ==
    /\ last.op = "apply_theme" /\ last.arg = "glacier" /\ last.ret = "True"
    /\ config.appearance.theme = "glacier"
    /\ config.colors.text = THEMES["glacier"].colors.text
    /\ config.appearance.scale = "1.5"
    /\ config.spacing.time_x = 7
    /\ config.location.zip_code = "10001"
    /\ config.fonts.time_size = DEFAULT_INSTANCE_CONFIG.fonts.time_size

\* C25: apply_theme with an id the catalog does not have returns False and
\* leaves the working copy unchanged, appearance.theme included.
C25_UnknownThemeRejected ==
    [][ ( /\ last'.op = "apply_theme"
          /\ last'.arg \notin DOMAIN THEMES )
        => ( /\ last'.ret = "False"
             /\ last'.exc = "none"
             /\ config' = config
             /\ config'.appearance.theme = config.appearance.theme ) ]_vars

\* an unknown id has been refused on a session that has the theme glacier
C25_Witness ==
    /\ last.op = "apply_theme" /\ last.arg = "ocean_blue" /\ last.ret = "False"
    /\ config.appearance.theme = "glacier"
    /\ config.colors.text = THEMES["glacier"].colors.text

\* the file of the import that has just run, and the outcome of its write
Imported == last'.arg[1]

\* C26: importing a root document whose instances have no entry for the
\* instance of the session takes the first entry of the file, merges it with
\* the defaults and stores the result as the working copy and as the entry of
\* the session's instance, in the root document and, when the write succeeds,
\* in the backing file; the instances of the root document are the same ids
\* as before, none is created for the id the entry has in the imported file,
\* and the instance of the session is unchanged.  When the write fails the
\* import returns False and the file is unchanged.
C26_ImportFallsBackToFirst ==
    [][ ( /\ last'.op = "import_file"
          /\ ~ImportRejects(CM, Imported)
          /\ HasKey(Imported.doc, "instances")
          /\ instance_id \notin DOMAIN Imported.doc.instances )
        => ( /\ instance_id' = instance_id
             /\ config' = _merge_with_defaults(Imported.doc.instances[Imported.first],
                                               DEFAULT_INSTANCE_CONFIG)
             /\ root_config'.instances[instance_id] = config'
             /\ DOMAIN root_config'.instances = DOMAIN root_config.instances
             /\ \A other \in DOMAIN root_config.instances \ {instance_id} :
                    root_config'.instances[other] = root_config.instances[other]
             /\ IF last'.arg[2] = "ok"
                THEN /\ last'.ret = "True"
                     /\ FileEntry(file', instance_id) = config'
                     /\ FileInstances(file') = DOMAIN root_config.instances
                ELSE /\ last'.ret = "False"
                     /\ file' = file ) ]_vars

\* the session of instance_1 has imported the root document that holds
\* instance_9 only: the entry is stored under instance_1, no instance_9 exists
C26_Witness ==
    /\ last.op = "import_file" /\ last.ret = "True"
    /\ last.arg[1] = ImpOther
    /\ instance_id = "instance_1"
    /\ config = _merge_with_defaults(EntryStyled, DEFAULT_INSTANCE_CONFIG)
    /\ FileEntry(file, "instance_1") = config
    /\ "instance_9" \notin FileInstances(file)
    /\ "instance_9" \notin DOMAIN root_config.instances

\* C27: importing a root document that has an entry keyed by the instance
\* of the session uses that entry, whatever it holds, an empty mapping
\* included, and never the entry of another instance.
C27_ImportPrefersOwnEntry ==
    [][ ( /\ last'.op = "import_file"
          /\ last'.ret = "True"
          /\ HasKey(Imported.doc, "instances")
          /\ IsDict(Imported.doc.instances)
          /\ instance_id \in DOMAIN Imported.doc.instances )
        => config' = _merge_with_defaults(Imported.doc.instances[instance_id],
                                          DEFAULT_INSTANCE_CONFIG) ]_vars

\* C28: when the imported file fails to parse, is not a mapping, has an
\* instances value that is empty or not a mapping, or the entry taken from it
\* is not a mapping, import returns False and the working copy, the root
\* document, the instance of the session and the backing file are unchanged.
C28_ImportRejectionNoEffect ==
    [][ ( /\ last'.op = "import_file"
          /\ \/ ~Imported.parses
             \/ ~IsDict(Imported.doc)
             \/ /\ HasKey(Imported.doc, "instances")
                /\ \/ ~IsDict(Imported.doc.instances)
                   \/ Imported.doc.instances = EmptyDict
             \/ ~IsDict(ImportChosen(CM, Imported)) )
        => ( /\ last'.ret = "False"
             /\ last'.exc = "none"
             /\ config' = config
             /\ root_config' = root_config
             /\ instance_id' = instance_id
             /\ file' = file ) ]_vars

\* a root document with no instances has been refused by a session whose
\* working copy holds a zip code that was never saved
C28_Witness ==
    /\ last.op = "import_file" /\ last.ret = "False"
    /\ last.arg[1] = ImpEmptyInstances
    /\ last.arg[2] = "ok"
    /\ config.location.zip_code = "90210"
    /\ PersistedZip(file, instance_id) # "90210"

\* the operations of the manager C29 names
CoreOps ==
    {"load", "set", "save", "add_instance", "remove_instance", "switch_instance",
     "import"}

\* C29: no core operation is fatal.  Whatever valid JSON the backing file
\* holds, load, set, save, add_instance, remove_instance, switch_instance and
\* import return (with success or a failure indicator) and raise no error.
C29_NothingIsFatal ==
    last.op \in CoreOps => last.exc = "none"

\* C30: set(section, key, value) leaves the root document unchanged, the
\* entry of the session's instance in particular, in every reachable state,
\* also after earlier saves.
C30_SetLeavesRootAlone ==
    [][ last'.op = "set" => root_config' = root_config ]_vars

\* C31: two widget processes for different instances share one backing file,
\* each with its own in-memory root document.  A save by the second process
\* never changes the persisted entry of the first process's instance: what
\* the file holds for that instance before the save (read as load() reads
\* it, merged with the defaults), it holds after it.
C31_PeerSaveKeepsOtherEntry ==
    [][ (last'.op = "peer_save" /\ FileEntry(file, instance_id) # Absent)
          => LoadedEntry(file', instance_id) = LoadedEntry(file, instance_id) ]_vars

ApplyCalls == {"set", "set_launch_at_boot", "apply_instant_preview",
               "clear_status_message", "manual_weather_refresh"}
\* in the sequence `calls`, Apply ran to its last call before `call` was made,
\* and no call of Apply came after it
AppliedBefore(calls, call) ==
    \A i \in 1..Len(calls) :
        calls[i] = call =>
          /\ \E j \in 1..(i - 1) : calls[j] = "set"
          /\ \E j \in 1..(i - 1) : calls[j] = "set_launch_at_boot"
          /\ \E j \in 1..(i - 1) : calls[j] = "manual_weather_refresh"
          /\ \A j \in (i + 1)..Len(calls) :
                 calls[j] \notin ApplyCalls \ {"clear_status_message"}

\* C34: ordering.  Within Save, every Apply step (the commits of the
\* manual-apply fields to the working copy, set_launch_at_boot and
\* manual_weather_refresh) has completed when save() is called, so a write
\* that succeeds holds the committed working copy and the startup
\* registration is the committed launch_at_boot; within an in-session
\* instance switch every Apply step has completed when switch_instance() is
\* called.
C34_ApplyCompletesFirst ==
    /\ last.op = "on_save" =>
         /\ AppliedBefore(last.calls, "save")
         /\ InList("save", last.calls) =>
              /\ startup_reg = CM_get(CM, "display", "launch_at_boot")
              /\ last.ret = "True" => FileEntry(file, instance_id) = config
    /\ last.op = "on_instance_changed" =>
         AppliedBefore(last.calls, "switch_instance")

\* a Save that wrote the file, in a session in which the ZIP entry and the
\* launch-at-boot box had been changed and not applied
C34_Witness ==
    /\ last.op = "on_save" /\ last.ret = "True" /\ InList("save", last.calls)
    /\ session0.snap.location.zip_code # "90210"
    /\ PersistedZip(file, instance_id) = "90210"
    /\ startup_reg = TRUE
    /\ ~session0.snap.display.launch_at_boot

\* the steps the weather-fetch thread takes
WorkerOps == {"fetch_read", "fetch_finish"}

\* C33: the background weather-fetch worker never mutates configuration
\* state.  In every interleaving of the thread's steps with the main loop's
\* edit-session actions, a step of the thread leaves the working copy, the
\* root document, the backing file and the edit session's snapshot and
\* controls as they are, and what it hands back is a string.
C33_WorkerNeverMutates ==
    [][ last'.op \in WorkerOps =>
          /\ UNCHANGED cmVars
          /\ UNCHANGED <<original_config, ctl, startup_reg>>
          /\ worker'.weather_text \in STRING ]_vars

\* while an edit session is open, the thread has read the working copy, got
\* its answer and handed back the text for the main loop to show
C33_Witness ==
    /\ last.op = "fetch_finish" /\ last.arg = "data" /\ win_open
    /\ worker.pc = "scheduled"
    /\ worker.weather_text = "emoji data"
    /\ worker.zip_code = CM_get(CM, "location", "zip_code")
    /\ worker.format = "%C+%t+%w"

\* what one more press of Apply would leave, the controls being as they are
ApplyAgain == on_apply(CM, ctl, original_config, startup_reg)

\* C35: Apply is idempotent on the working copy.  In the state an Apply has
\* left, with the controls unchanged, a second Apply leaves the working copy
\* (and the root document, startup registration, controls and snapshot) as
\* the first one left them; and no Apply, first or repeated, writes the
\* backing file.
C35_ApplyIdempotent ==
    /\ [][ last'.op = "on_apply" => file' = file ]_vars
    /\ [] ( (win_open /\ last.op = "on_apply") =>
              /\ ApplyAgain.cm = CM
              /\ ApplyAgain.ctl = ctl
              /\ ApplyAgain.snap = original_config
              /\ ApplyAgain.boot = startup_reg )

\* the first Apply changed the working copy: it committed a ZIP code and a
\* launch-at-boot flag the session had not opened with
C35_Witness ==
    /\ win_open /\ last.op = "on_apply" /\ last.exc = "none"
    /\ config.location.zip_code = "90210"
    /\ session0.snap.location.zip_code # "90210"
    /\ config.display.launch_at_boot /\ ~session0.snap.display.launch_at_boot
    /\ ApplyAgain.cm.config = config

\* C36: the widget and its session stay on the same instance.  In every
\* state in which no edit session is open, the ConfigManager's instance id
\* is the id of the widget that owns it, so a later save by the widget
\* (save_current_position) writes into the widget's own entry; also after
\* edit sessions that switched instances and ended with Save or Cancel.
C36_SessionFollowsWidget ==
    (alive /\ ~win_open) => instance_id = widget_id

\* C37: in every state reachable after load, including the corrupt-file
\* fallback with a session instance id other than instance_1, the session's
\* instance id is a key of the root document's "instances" mapping.
C37_SessionIdIsAnInstance ==
    ( /\ alive
      /\ IsDict(root_config) /\ HasKey(root_config, "instances")
      /\ IsDict(root_config.instances) )
    => instance_id \in DOMAIN root_config.instances

\* C38: an in-session instance switch only reads the new instance's
\* configuration when it re-synchronises the controls.  Immediately after a
\* switch that completed, the working copy is _merge_with_defaults(stored
\* entry of the new instance, Default Schema): the switch itself changes no
\* key of it (colors.time_color under colors.lock_colors, or
\* weather.display_format carried over from the previous instance's
\* controls).
C38_SwitchOnlyReads ==
    [][ ( /\ last'.op = "on_instance_changed"
          /\ last'.ret = "True" /\ last'.exc = "none" )
        => config' = _merge_with_defaults(root_config'.instances[instance_id'],
                                          DEFAULT_INSTANCE_CONFIG) ]_vars

\* C39: one press of "+ New" adds exactly one instance to the root document,
\* and the instance id the new widget process is started with is the id that
\* was added and reported to the user.
C39_NewAddsOneAndLaunchesIt ==
    [][ ( /\ last'.op = "add_new_instance"
          /\ last'.exc = "none" /\ last'.ret # "None" )
        => ( /\ DOMAIN root_config'.instances
                  = DOMAIN root_config.instances \cup {last'.ret}
             /\ last'.arg = last'.ret ) ]_vars

\* C40: after Cancel, the external side effects of earlier Apply calls
\* agree with the restored configuration: the OS-startup registration last
\* requested through set_launch_at_boot equals the restored working copy's
\* display.launch_at_boot.  The registration is on only when an Apply has
\* requested it, so after Cancel a registration that is on is matched by
\* display.launch_at_boot = true in the restored working copy.
C40_CancelRestoresRegistration ==
    ( /\ last.op = "on_cancel" /\ last.exc = "none"
      /\ startup_reg
      /\ HasKey(config, "display") /\ IsDict(config.display)
      /\ HasKey(config.display, "launch_at_boot") )
    => config.display.launch_at_boot = startup_reg
====
